---- MODULE Spec2Model ----
(***************************************************************************)
(* YScanF: the buffered byte source, the token readers and the yscanf      *)
(* dispatcher of yscanf3.h (version 3.0) and of yscanf2.h (version 2.0).   *)
(*                                                                         *)
(* Bytes are ASCII codes and EOF is -1, as in C.  A C integer is the tuple *)
(* of its 16-bit limbs, least significant first (two limbs for int and     *)
(* unsigned, four for long long and unsigned long long), so that the       *)
(* 64-bit accumulators wrap exactly where the machine's do.                *)
(***************************************************************************)
EXTENDS Integers, Sequences, FiniteSets, TLC

(* ------------------------------ bounds --------------------------------- *)

\* sizeof(ybuf), scaled down from 1 << 22 so that refills happen
BufSize == 2
\* longest stream drawn over InputAlphabet
MaxLen == 3

(* --------------------------- C characters ------------------------------ *)

EOF == -1

Ascii ==
    ("\t" :> 9) @@ ("\n" :> 10) @@ ("\r" :> 13) @@ (" " :> 32) @@ ("%" :> 37) @@
    ("+" :> 43) @@ ("-" :> 45) @@ ("." :> 46) @@
    ("0" :> 48) @@ ("1" :> 49) @@ ("2" :> 50) @@ ("3" :> 51) @@ ("4" :> 52) @@
    ("5" :> 53) @@ ("6" :> 54) @@ ("7" :> 55) @@ ("8" :> 56) @@ ("9" :> 57) @@
    ("E" :> 69) @@ ("a" :> 97) @@ ("c" :> 99) @@ ("d" :> 100) @@ ("e" :> 101) @@
    ("f" :> 102) @@ ("g" :> 103) @@ ("h" :> 104) @@ ("i" :> 105) @@ ("l" :> 108) @@
    ("o" :> 111) @@ ("r" :> 114) @@ ("s" :> 115) @@ ("t" :> 116) @@ ("u" :> 117) @@
    ("w" :> 119) @@ ("x" :> 120) @@ ("z" :> 122)

\* the code of a character literal, 'c'
Ord(c) == Ascii[c]

\* a string literal as its bytes, from its characters
Str(cs) == [i \in 1..Len(cs) |-> Ord(cs[i])]

\* isspace taking the space alone for whitespace
isspace_SpaceOnly(c) == c = 32

\* isspace() of the C locale: space, \t, \n, \v, \f, \r
isspace(c) == c \in {32, 9, 10, 11, 12, 13}

\* c >= '0' && c <= '9'
isdigit(c) == c >= Ord("0") /\ c <= Ord("9")

Min(a, b) == IF a < b THEN a ELSE b

(* ---------------------------- C integers ------------------------------- *)

Limb == 2^16

RECURSIVE MulAddLimbs(_, _, _, _)
\* limbs i.. of x * m + carry, modulo 2^(16 * Len(x))
MulAddLimbs(x, m, carry, i) ==
    IF i > Len(x) THEN <<>>
    ELSE LET t == x[i] * m + carry
         IN  <<t % Limb>> \o MulAddLimbs(x, m, t \div Limb, i + 1)

\* x * 10 + d in the width of x (the machine's wrap-around)
MulAdd10(x, d) == MulAddLimbs(x, 10, d, 1)

\* -x in the width of x (two's complement)
Neg(x) == MulAddLimbs([i \in 1..Len(x) |-> Limb - 1 - x[i]], 1, 1, 1)

\* the sign dropped from the product
MulSign_Dropped(sign, x) == x

\* sign * x, sign being 1 or -1
MulSign(sign, x) == IF sign = -1 THEN Neg(x) ELSE x

IsNeg(x) == x[Len(x)] >= Limb \div 2

RECURSIVE LtFrom(_, _, _)
LtFrom(a, b, i) ==
    IF i = 0 THEN FALSE
    ELSE IF a[i] # b[i] THEN a[i] < b[i]
    ELSE LtFrom(a, b, i - 1)

\* a < b, both unsigned of one width
LtU(a, b) == LtFrom(a, b, Len(a))

\* a < b, both signed of one width
LtS(a, b) == IF IsNeg(a) # IsNeg(b) THEN IsNeg(a) ELSE LtU(a, b)

\* (int)x, (unsigned)x: the low 32 bits
Trunc32(x) == SubSeq(x, 1, 2)

Zero64 == <<0, 0, 0, 0>>
INT32_MAX == <<65535, 32767>>
INT32_MIN == <<0, 32768>>
UINT32_MAX == <<65535, 65535>>
LLONG_MAX == <<65535, 65535, 65535, 32767>>
LLONG_MIN == <<0, 0, 0, 32768>>
ULLONG_MAX == <<65535, 65535, 65535, 65535>>
\* INT32_MAX, INT32_MIN and UINT32_MAX converted to a 64-bit operand
INT32_MAX_64 == <<65535, 32767, 0, 0>>
INT32_MIN_64 == <<0, 32768, 65535, 65535>>
UINT32_MAX_64 == <<65535, 65535, 0, 0>>

(* ------------------------ the stream, stdin ---------------------------- *)

\* fread(ybuf, 1, sizeof(ybuf), stdin): the stream delivers up to s.rd bytes
\* a call (a short read when s.rd < BufSize), never more than the buffer
\* holds or the stream has left, and 0 bytes at its end.  s.freads counts
\* the reads, s.drained tells that one of them has returned 0 bytes.
fread(s) ==
    LET len == Min(Min(s.rd, BufSize), Len(s.stdin))
    IN  [s   |-> [s EXCEPT
                    !.ybuf   = [i \in 1..BufSize |->
                                  IF i <= len THEN s.stdin[i] ELSE s.ybuf[i]],
                    !.stdin  = SubSeq(s.stdin, len + 1, Len(s.stdin)),
                    !.freads = @ + 1,
                    !.drained = IF len = 0 THEN 1 ELSE @],
         len |-> len]

(* ======================= yscanf3.h: core IO ============================ *)

\* A function's local whose value is read more than once is the parameter
\* of a local operator, applied to the expression the code assigns to it.

\* yget without the test of yeof: it reads the stream again
yget_NoLatch(s) ==
    LET Filled(f) ==
            IF f.len = 0
            THEN [s |-> [f.s EXCEPT !.yeof = 1], c |-> EOF]
            ELSE [s |-> [f.s EXCEPT !.yptr = 1, !.yend = f.len], c |-> f.s.ybuf[1]]
    IN  IF s.yptr >= s.yend
        THEN Filled(fread(s))
        ELSE [s |-> [s EXCEPT !.yptr = @ + 1], c |-> s.ybuf[s.yptr + 1]]

yget(s) ==
    LET Filled(f) ==
            IF f.len = 0
            THEN [s |-> [f.s EXCEPT !.yeof = 1], c |-> EOF]
            ELSE [s |-> [f.s EXCEPT !.yptr = 1, !.yend = f.len], c |-> f.s.ybuf[1]]
    IN  IF s.yptr >= s.yend
        THEN (IF s.yeof = 1 THEN [s |-> s, c |-> EOF] ELSE Filled(fread(s)))
        ELSE [s |-> [s EXCEPT !.yptr = @ + 1], c |-> s.ybuf[s.yptr + 1]]

\* ypeek advancing yptr as yget does
ypeek_Consuming(s) == yget(s)

ypeek(s) ==
    LET Filled(f) ==
            IF f.len = 0
            THEN [s |-> [f.s EXCEPT !.yeof = 1], c |-> EOF]
            ELSE [s |-> [f.s EXCEPT !.yptr = 0, !.yend = f.len], c |-> f.s.ybuf[1]]
    IN  IF s.yptr >= s.yend
        THEN (IF s.yeof = 1 THEN [s |-> s, c |-> EOF] ELSE Filled(fread(s)))
        ELSE [s |-> s, c |-> s.ybuf[s.yptr + 1]]

\* yskip_space that skips nothing
yskip_space_None(s) == s

RECURSIVE yskip_space(_)
yskip_space(s) ==
    LET Peeked(p) ==
            IF p.c # EOF /\ isspace(p.c) THEN yskip_space(yget(p.s).s) ELSE p.s
    IN  Peeked(ypeek(s))

(* ======================= yscanf3.h: readers ============================ *)

\* what a reader hands back: the stream after it, its return value r, and
\* the value v it stored through its out pointer (w: whether it stored)
Stored(s, v) == [s |-> s, r |-> 1, w |-> TRUE, v |-> v]
NotStored(s) == [s |-> s, r |-> 0, w |-> FALSE, v |-> <<>>]

RECURSIVE AccumDigits(_, _)
\* while((c=ypeek())>='0'&&c<='9') x=x*10+(yget()-'0');
\* long long x * 10 + d beyond LLONG_MAX is undefined in C; the build of
\* README.md (gcc -O3 -march=native -flto) wraps, as gcc does at -O0 to -O2
\* and as the unsigned long long accumulator does.
AccumDigits(s, x) ==
    LET Got(g) == AccumDigits(g.s, MulAdd10(x, g.c - Ord("0")))
        Peeked(p) == IF isdigit(p.c) THEN Got(yget(p.s)) ELSE [s |-> p.s, x |-> x]
    IN  Peeked(ypeek(s))

\* the sign noted and left unread
ReadSign_Unread(s, c) ==
    IF c = Ord("+") \/ c = Ord("-")
    THEN [s |-> s, sign |-> IF c = Ord("-") THEN -1 ELSE 1]
    ELSE [s |-> s, sign |-> 1]

\* if(c=='+'||c=='-'){sign=(c=='-')?-1:1; yget();}
ReadSign(s, c) ==
    IF c = Ord("+") \/ c = Ord("-")
    THEN [s |-> yget(s).s, sign |-> IF c = Ord("-") THEN -1 ELSE 1]
    ELSE [s |-> s, sign |-> 1]

yread_int_ok(s) ==
    LET Digits(a, sign) == Stored(a.s, Trunc32(MulSign(sign, a.x)))
        AfterSign(p, sign) ==
            IF ~isdigit(p.c) THEN NotStored(p.s)
            ELSE Digits(AccumDigits(p.s, Zero64), sign)
        Signed(sg) == AfterSign(ypeek(sg.s), sg.sign)
        Start(p) == IF p.c = EOF THEN NotStored(p.s) ELSE Signed(ReadSign(p.s, p.c))
    IN  Start(ypeek(yskip_space(s)))

yread_uint_ok(s) ==
    LET Digits(a) == Stored(a.s, Trunc32(a.x))
        Start(p) ==
            IF p.c = EOF \/ ~isdigit(p.c) THEN NotStored(p.s)
            ELSE Digits(AccumDigits(p.s, Zero64))
    IN  Start(ypeek(yskip_space(s)))

yread_ll_ok(s) ==
    LET Digits(a, sign) == Stored(a.s, MulSign(sign, a.x))
        AfterSign(p, sign) ==
            IF ~isdigit(p.c) THEN NotStored(p.s)
            ELSE Digits(AccumDigits(p.s, Zero64), sign)
        Signed(sg) == AfterSign(ypeek(sg.s), sg.sign)
        Start(p) == IF p.c = EOF THEN NotStored(p.s) ELSE Signed(ReadSign(p.s, p.c))
    IN  Start(ypeek(yskip_space(s)))

yread_ull_ok(s) ==
    LET Digits(a) == Stored(a.s, a.x)
        Start(p) ==
            IF p.c = EOF \/ ~isdigit(p.c) THEN NotStored(p.s)
            ELSE Digits(AccumDigits(p.s, Zero64))
    IN  Start(ypeek(yskip_space(s)))

RECURSIVE DigitRun(_, _)
\* while((c=ypeek())>='0'&&c<='9') x=x*10+(yget()-'0'); of a double: the
\* digits accumulated, kept as digits
DigitRun(s, ds) ==
    LET Got(g) == DigitRun(g.s, Append(ds, g.c - Ord("0")))
        Peeked(p) == IF isdigit(p.c) THEN Got(yget(p.s)) ELSE [s |-> p.s, ds |-> ds]
    IN  Peeked(ypeek(s))

\* The double a reader computes, by its parts: sign, the digits of the
\* integer part x, the digits of the fraction (frac over base), the sign es
\* and the digits of the exponent ep.
yread_double_ok(s) ==
    LET Exponent(ep, sign, ip, fr, es) == Stored(ep.s, <<sign, ip, fr, es, ep.ds>>)
        ExpSign(sg, sign, ip, fr) == Exponent(DigitRun(sg.s, <<>>), sign, ip, fr, sg.sign)
        ExpStart(p, sign, ip, fr) == ExpSign(ReadSign(p.s, p.c), sign, ip, fr)
        Mantissa(p, sign, ip, fr) ==
            IF p.c = Ord("e") \/ p.c = Ord("E")
            THEN ExpStart(ypeek(yget(p.s).s), sign, ip, fr)
            ELSE Stored(p.s, <<sign, ip, fr, 1, <<>> >>)
        Fraction(f, sign, ip) == Mantissa(ypeek(f.s), sign, ip, f.ds)
        Point(p, sign, ip) ==
            IF p.c = Ord(".") THEN Fraction(DigitRun(yget(p.s).s, <<>>), sign, ip)
            ELSE Mantissa(ypeek(p.s), sign, ip, <<>>)
        Integer(i, sign) == Point(ypeek(i.s), sign, i.ds)
        AfterSign(p, sign) ==
            IF ~isdigit(p.c) /\ p.c # Ord(".") THEN NotStored(p.s)
            ELSE Integer(DigitRun(p.s, <<>>), sign)
        Signed(sg) == AfterSign(ypeek(sg.s), sg.sign)
        Start(p) == IF p.c = EOF THEN NotStored(p.s) ELSE Signed(ReadSign(p.s, p.c))
    IN  Start(ypeek(yskip_space(s)))

RECURSIVE StrRun(_, _)
\* while((c=ypeek())!=EOF&&!isspace(c)) *s++=yget();
StrRun(s, str) ==
    LET Got(g) == StrRun(g.s, Append(str, g.c))
        Peeked(p) ==
            IF p.c # EOF /\ ~isspace(p.c) THEN Got(yget(p.s))
            ELSE [s |-> p.s, str |-> str]
    IN  Peeked(ypeek(s))

\* yread_str_ok without its yskip_space()
yread_str_ok_NoSkip(s) ==
    LET Token(t) == Stored(t.s, t.str)
        Start(p) == IF p.c = EOF THEN NotStored(p.s) ELSE Token(StrRun(p.s, <<>>))
    IN  Start(ypeek(s))

yread_str_ok(s) ==
    LET Token(t) == Stored(t.s, t.str)
        Start(p) == IF p.c = EOF THEN NotStored(p.s) ELSE Token(StrRun(p.s, <<>>))
    IN  Start(ypeek(yskip_space(s)))

(* ---------------------------- line readers ---------------------------- *)

\* storing the byte whatever maxlen is
StoreIfRoom_Always(str, c, maxlen) == Append(str, c)

\* if(len<maxlen-1) s[len++]=(char)c;   str is s[0..len-1]
StoreIfRoom(str, c, maxlen) == IF Len(str) < maxlen - 1 THEN Append(str, c) ELSE str

RECURSIVE LineRun(_, _, _, _)
\* while(c!=EOF&&c!='\n'&&c!='\r'){ if(len<maxlen-1) s[len++]=(char)c; c=yget(); }
LineRun(s, c, str, maxlen) ==
    LET Got(g) == LineRun(g.s, g.c, StoreIfRoom(str, c, maxlen), maxlen)
    IN  IF c # EOF /\ c # Ord("\n") /\ c # Ord("\r") THEN Got(yget(s))
        ELSE [s |-> s, c |-> c, str |-> str]

\* the end of a line taking '\r' alone
LineEnd_CrAlone(s, c) == s

\* if(c=='\r'&&ypeek()=='\n') yget();   ypeek() is called only after '\r'
LineEnd(s, c) ==
    LET Peeked(p) == IF p.c = Ord("\n") THEN yget(p.s).s ELSE p.s
    IN  IF c = Ord("\r") THEN Peeked(ypeek(s)) ELSE s

\* the line read from its first byte c on: s[len]=0; return 1;
\* the value stored is s[0..len-1], the NUL is written at index len
ReadLine(s, c, maxlen) ==
    LET Run(l) == Stored(LineEnd(l.s, l.c), l.str)
    IN  Run(LineRun(s, c, <<>>, maxlen))

\* yread_line_ok taking a leading '\n' or '\r' as an empty line
yread_line_ok_NoSkip(s, maxlen) ==
    LET Got(g) == IF g.c = EOF THEN NotStored(g.s) ELSE ReadLine(g.s, g.c, maxlen)
    IN  Got(yget(s))

RECURSIVE yread_line_ok(_, _)
\* while(1){ c=yget(); if(c==EOF)return 0; if(c=='\n'||c=='\r')continue; ... }
yread_line_ok(s, maxlen) ==
    LET Got(g) ==
            IF g.c = EOF THEN NotStored(g.s)
            ELSE IF g.c = Ord("\n") \/ g.c = Ord("\r") THEN yread_line_ok(g.s, maxlen)
            ELSE ReadLine(g.s, g.c, maxlen)
    IN  Got(yget(s))

ygetline_ok(s, maxlen) ==
    LET Got(g) == IF g.c = EOF THEN NotStored(g.s) ELSE ReadLine(g.s, g.c, maxlen)
    IN  Got(yget(s))

(* ======================= yscanf3.h: yscanf ============================= *)

\* an output slot the caller passes: w tells whether yscanf stored through
\* it, k the type stored, v the value
Untouched == [w |-> FALSE, k |-> "none", v |-> <<>>]
\* the calls of yscanf pass three output slots
NoSlots == <<Untouched, Untouched, Untouched>>

\* *fmt, the format being NUL-terminated
FmtAt(fmt, i) == IF i > Len(fmt) THEN 0 ELSE fmt[i]

\* Convert3 returning EOF at a failure whatever the count
Convert3_AlwaysEof(rd, kind, cnt, slots) ==
    IF rd.r = 0
    THEN [done |-> TRUE, s |-> rd.s, ret |-> EOF, cnt |-> cnt, slots |-> slots]
    ELSE [done |-> FALSE, s |-> rd.s, ret |-> 0, cnt |-> cnt + 1,
          slots |-> [slots EXCEPT ![cnt + 1] = [w |-> TRUE, k |-> kind, v |-> rd.v]]]

\* Convert3 returning the count at a failure, 0 included
Convert3_ReturnsCount(rd, kind, cnt, slots) ==
    IF rd.r = 0
    THEN [done |-> TRUE, s |-> rd.s, ret |-> cnt, cnt |-> cnt, slots |-> slots]
    ELSE [done |-> FALSE, s |-> rd.s, ret |-> 0, cnt |-> cnt + 1,
          slots |-> [slots EXCEPT ![cnt + 1] = [w |-> TRUE, k |-> kind, v |-> rd.v]]]

\* Convert3 counting the conversion and storing nothing
Convert3_NoStore(rd, kind, cnt, slots) ==
    IF rd.r = 0
    THEN [done |-> TRUE, s |-> rd.s, ret |-> IF cnt # 0 THEN cnt ELSE EOF,
          cnt |-> cnt, slots |-> slots]
    ELSE [done |-> FALSE, s |-> rd.s, ret |-> 0, cnt |-> cnt + 1, slots |-> slots]

\* if(!reader(p)){va_end(ap);return cnt?cnt:EOF;} cnt++;
\* the slot of the (cnt+1)-th conversion is the (cnt+1)-th argument
Convert3(rd, kind, cnt, slots) ==
    IF rd.r = 0
    THEN [done |-> TRUE, s |-> rd.s, ret |-> IF cnt # 0 THEN cnt ELSE EOF,
          cnt |-> cnt, slots |-> slots]
    ELSE [done |-> FALSE, s |-> rd.s, ret |-> 0, cnt |-> cnt + 1,
          slots |-> [slots EXCEPT ![cnt + 1] = [w |-> TRUE, k |-> kind, v |-> rd.v]]]

\* an unrecognized tag ending the call as a failed conversion does
Invalid3_ReturnsCount(s, cnt, slots) ==
    [done |-> TRUE, s |-> s, ret |-> IF cnt # 0 THEN cnt ELSE EOF,
     cnt |-> cnt, slots |-> slots]

\* an unrecognized tag ending the call with a value of its own
Invalid3_OwnValue(s, cnt, slots) ==
    [done |-> TRUE, s |-> s, ret |-> -2, cnt |-> cnt, slots |-> slots]

\* else{va_end(ap);return -1;}
Invalid3(s, cnt, slots) ==
    [done |-> TRUE, s |-> s, ret |-> -1, cnt |-> cnt, slots |-> slots]

\* int c=yget(); if(c==EOF)...; *p=(char)c;
ReadChar3(s) ==
    LET Got(g) == IF g.c = EOF THEN NotStored(g.s) ELSE Stored(g.s, <<g.c>>)
    IN  Got(yget(s))

\* one '%' directive, fmt[i] being the byte after the '%': its outcome o,
\* and the index i of the directive's last byte
Directive3(fmt, i, s, cnt, slots) ==
    LET c == FmtAt(fmt, i) IN
    IF c = Ord("d") THEN [o |-> Convert3(yread_int_ok(s), "int", cnt, slots), i |-> i]
    ELSE IF c = Ord("u")
    THEN [o |-> Convert3(yread_uint_ok(s), "unsigned", cnt, slots), i |-> i]
    ELSE IF c = Ord("l")
    THEN IF FmtAt(fmt, i + 1) = Ord("l")
         THEN IF FmtAt(fmt, i + 2) = Ord("d")
              THEN [o |-> Convert3(yread_ll_ok(s), "long long", cnt, slots), i |-> i + 2]
              ELSE IF FmtAt(fmt, i + 2) = Ord("u")
              THEN [o |-> Convert3(yread_ull_ok(s), "unsigned long long", cnt, slots),
                    i |-> i + 2]
              ELSE [o |-> Invalid3(s, cnt, slots), i |-> i + 2]
         ELSE [o |-> Invalid3(s, cnt, slots), i |-> i + 1]
    ELSE IF c = Ord("f") \/ c = Ord("e") \/ c = Ord("g")
    THEN [o |-> Convert3(yread_double_ok(s), "double", cnt, slots), i |-> i]
    ELSE IF c = Ord("s")
    THEN [o |-> Convert3(yread_str_ok(s), "string", cnt, slots), i |-> i]
    ELSE IF c = Ord("c") THEN [o |-> Convert3(ReadChar3(s), "char", cnt, slots), i |-> i]
    ELSE [o |-> Invalid3(s, cnt, slots), i |-> i]

\* a literal byte of the format that also takes a byte of the input
Literal3_Matching(s) == yget(s).s

\* if(*fmt!='%'){ fmt++; continue; }: the stream after a literal byte of
\* the format
Literal3(s) == s

RECURSIVE yscanf3_from(_, _, _, _, _)
\* the while(*fmt) loop, fmt pointing at fmt[i]
yscanf3_from(fmt, i, s, cnt, slots) ==
    LET c == FmtAt(fmt, i)
        Directed(d) ==
            IF d.o.done THEN [s |-> d.o.s, ret |-> d.o.ret, slots |-> d.o.slots]
            ELSE yscanf3_from(fmt, d.i + 1, d.o.s, d.o.cnt, d.o.slots)
    IN  IF c = 0 THEN [s |-> s, ret |-> cnt, slots |-> slots]
        ELSE IF isspace(c) THEN yscanf3_from(fmt, i + 1, yskip_space(s), cnt, slots)
        ELSE IF c # Ord("%") THEN yscanf3_from(fmt, i + 1, Literal3(s), cnt, slots)
        ELSE Directed(Directive3(fmt, i + 1, s, cnt, slots))

\* yscanf(fmt, &slot1, &slot2) of yscanf3.h
yscanf3(fmt, s, slots) == yscanf3_from(fmt, 1, s, 0, slots)

(* ===================== yscanf2.h: buffer management ==================== *)

\* yrefill leaving yptr where it was
yrefill_KeepsCursor(s) ==
    LET Read(f) == [f.s EXCEPT !.yend = f.len]
    IN  Read(fread(s))

\* yrefill leaving the stream alone once it has returned 0 bytes
yrefill_Latched(s) ==
    LET Read(f) == [f.s EXCEPT !.yptr = 0, !.yend = f.len]
    IN  IF s.drained = 1 THEN [s EXCEPT !.yptr = 0, !.yend = 0] ELSE Read(fread(s))

yrefill(s) ==
    LET Read(f) == [f.s EXCEPT !.yptr = 0, !.yend = f.len]
    IN  Read(fread(s))

ynext_char(s) ==
    LET Ready(t) ==
            IF t.yptr >= t.yend THEN [s |-> t, c |-> EOF]
            ELSE [s |-> [t EXCEPT !.yptr = @ + 1], c |-> t.ybuf[t.yptr + 1]]
    IN  Ready(IF s.yptr >= s.yend THEN yrefill(s) ELSE s)

\* ypeek_char advancing yptr as ynext_char does
ypeek_char_Consuming(s) == ynext_char(s)

ypeek_char(s) ==
    LET Ready(t) ==
            IF t.yptr >= t.yend THEN [s |-> t, c |-> EOF]
            ELSE [s |-> t, c |-> t.ybuf[t.yptr + 1]]
    IN  Ready(IF s.yptr >= s.yend THEN yrefill(s) ELSE s)

RECURSIVE yskip_space_input(_)
yskip_space_input(s) ==
    LET Peeked(p) ==
            IF p.c # EOF /\ isspace(p.c) THEN yskip_space_input(ynext_char(p.s).s)
            ELSE p.s
    IN  Peeked(ypeek_char(s))

(* ===================== yscanf2.h: number parsing ======================= *)

RECURSIVE ConsumeDigits(_)
\* while ((c = ynext_char()) >= '0' && c <= '9');
ConsumeDigits(s) ==
    LET Got(g) == IF isdigit(g.c) THEN ConsumeDigits(g.s) ELSE g.s
    IN  Got(ynext_char(s))

\* next < x, of int64_t in yparse_int and of uint64_t in yparse_uint
Wrapped(next, x, signed) == IF signed THEN LtS(next, x) ELSE LtU(next, x)

RECURSIVE ParseLoop(_, _, _, _)
\* while (c >= '0' && c <= '9') of yparse_int (signed) and of yparse_uint.
\* int64_t x * 10 + d beyond INT64_MAX is undefined in C; the build of
\* README.md (gcc -O3 -march=native -flto) wraps, as gcc does at -O0 to -O2
\* and as the uint64_t accumulator does.
ParseLoop(s, x, c, signed) ==
    LET Got(g, next) == ParseLoop(g.s, next, g.c, signed)
        Step(next) ==
            IF Wrapped(next, x, signed)
            THEN [s |-> ConsumeDigits(s), x |-> x, overflow |-> 1]
            ELSE Got(ynext_char(s), next)
    IN  IF ~isdigit(c) THEN [s |-> s, x |-> x, overflow |-> 0]
        ELSE Step(MulAdd10(x, c - Ord("0")))

\* c = ynext_char(); if (c == '-') { sign = -1; c = ynext_char(); }
\* else if (c == '+') { c = ynext_char(); }
NextSigned(s) ==
    LET Second(h, sign) == [s |-> h.s, c |-> h.c, sign |-> sign]
        First(g) ==
            IF g.c = Ord("-") THEN Second(ynext_char(g.s), -1)
            ELSE IF g.c = Ord("+") THEN Second(ynext_char(g.s), 1)
            ELSE [s |-> g.s, c |-> g.c, sign |-> 1]
    IN  First(ynext_char(s))

yparse_int(s) ==
    LET Parsed(l, sign) ==
            [s |-> l.s, val |-> MulSign(sign, l.x), overflow |-> l.overflow]
        Start(n) ==
            IF ~isdigit(n.c) THEN [s |-> n.s, val |-> Zero64, overflow |-> 1]
            ELSE Parsed(ParseLoop(n.s, Zero64, n.c, TRUE), n.sign)
    IN  Start(NextSigned(yskip_space_input(s)))

yparse_uint(s) ==
    LET Parsed(l) == [s |-> l.s, val |-> l.x, overflow |-> l.overflow]
        Start(g) ==
            IF ~isdigit(g.c) THEN [s |-> g.s, val |-> Zero64, overflow |-> 1]
            ELSE Parsed(ParseLoop(g.s, Zero64, g.c, FALSE))
    IN  Start(ynext_char(yskip_space_input(s)))

(* ===================== yscanf2.h: optimized readers ==================== *)

\* val > 0, val an int64_t
Positive(val) == LtS(Zero64, val)

\* yread_int converting without the clamp
yread_int_Unclamped(s) ==
    LET Parsed(p) == [s |-> p.s, v |-> Trunc32(p.val)]
    IN  Parsed(yparse_int(s))

yread_int(s) ==
    LET Parsed(p) ==
            [s |-> p.s,
             v |-> IF p.overflow = 1 \/ LtS(INT32_MAX_64, p.val)
                      \/ LtS(p.val, INT32_MIN_64)
                   THEN (IF Positive(p.val) THEN INT32_MAX ELSE INT32_MIN)
                   ELSE Trunc32(p.val)]
    IN  Parsed(yparse_int(s))

\* yread_ll returning the parsed value also after an overflow
yread_ll_Unclamped(s) ==
    LET Parsed(p) == [s |-> p.s, v |-> p.val]
    IN  Parsed(yparse_int(s))

yread_ll(s) ==
    LET Parsed(p) ==
            [s |-> p.s,
             v |-> IF p.overflow = 1
                   THEN (IF Positive(p.val) THEN LLONG_MAX ELSE LLONG_MIN)
                   ELSE p.val]
    IN  Parsed(yparse_int(s))

yread_uint(s) ==
    LET Parsed(p) ==
            [s |-> p.s,
             v |-> IF p.overflow = 1 \/ LtU(UINT32_MAX_64, p.val)
                   THEN UINT32_MAX
                   ELSE Trunc32(p.val)]
    IN  Parsed(yparse_uint(s))

yread_ull(s) ==
    LET Parsed(p) == [s |-> p.s, v |-> IF p.overflow = 1 THEN ULLONG_MAX ELSE p.val]
    IN  Parsed(yparse_uint(s))

RECURSIVE DigitRun2(_, _, _)
\* while (c >= '0' && c <= '9') { x = x * 10.0 + (c - '0'); c = ynext_char(); }
DigitRun2(s, c, ds) ==
    LET Got(g) == DigitRun2(g.s, g.c, Append(ds, c - Ord("0")))
    IN  IF isdigit(c) THEN Got(ynext_char(s)) ELSE [s |-> s, c |-> c, ds |-> ds]

\* the double by its parts, as for yread_double_ok
yread_double(s) ==
    LET Fraction(f, sign, ip) == [s |-> f.s, v |-> <<sign, ip, f.ds, 1, <<>> >>]
        Point(g, sign, ip) == Fraction(DigitRun2(g.s, g.c, <<>>), sign, ip)
        Integer(i, sign) ==
            IF i.c = Ord(".") THEN Point(ynext_char(i.s), sign, i.ds)
            ELSE [s |-> i.s, v |-> <<sign, i.ds, <<>>, 1, <<>> >>]
        Start(n) == Integer(DigitRun2(n.s, n.c, <<>>), n.sign)
    IN  Start(NextSigned(yskip_space_input(s)))

yread_double_exp(s) ==
    LET Exponent(ep, x, esign) ==
            [s |-> ep.s, v |-> <<x.v[1], x.v[2], x.v[3], esign, ep.ds>>]
        ExpStart(n, x) == Exponent(DigitRun2(n.s, n.c, <<>>), x, n.sign)
        Peeked(p, x) ==
            IF p.c = Ord("e") \/ p.c = Ord("E")
            THEN ExpStart(NextSigned(ynext_char(p.s).s), x)
            ELSE [s |-> p.s, v |-> x.v]
        Mantissa(x) == Peeked(ypeek_char(x.s), x)
    IN  Mantissa(yread_double(s))

RECURSIVE StrRun2(_, _)
\* while ((c = ynext_char()) != EOF && !isspace(c)) *s++ = (char)c;
StrRun2(s, str) ==
    LET Got(g) ==
            IF g.c # EOF /\ ~isspace(g.c) THEN StrRun2(g.s, Append(str, g.c))
            ELSE [s |-> g.s, v |-> str]
    IN  Got(ynext_char(s))

yread_string(s) == StrRun2(yskip_space_input(s), <<>>)

(* ===================== yscanf2.h: yscanf =============================== *)

\* if (skip_space) yskip_space_input();
SkipIf(skip_space, s) == IF skip_space = 1 THEN yskip_space_input(s) ELSE s

\* *p = reader(); cnt++;
Convert2(rd, kind, cnt, slots) ==
    [done |-> FALSE, s |-> rd.s, ret |-> 0, cnt |-> cnt + 1,
     slots |-> [slots EXCEPT ![cnt + 1] = [w |-> TRUE, k |-> kind, v |-> rd.v]]]

\* va_end(ap); return -1;
Invalid2(s, cnt, slots) ==
    [done |-> TRUE, s |-> s, ret |-> -1, cnt |-> cnt, slots |-> slots]

\* case 'c'
ReadChar2(skip_space, s, cnt, slots) ==
    LET Got(g) ==
            IF g.c = EOF
            THEN [done |-> TRUE, s |-> g.s, ret |-> IF cnt # 0 THEN cnt ELSE EOF,
                  cnt |-> cnt, slots |-> slots]
            ELSE Convert2([s |-> g.s, v |-> <<g.c>>], "char", cnt, slots)
    IN  Got(ynext_char(SkipIf(skip_space, s)))

\* switch (*fmt), fmt[i] being the byte after the '%': its outcome o, and
\* the index i of the directive's last byte
Directive2(fmt, i, skip_space, s, cnt, slots) ==
    LET c == FmtAt(fmt, i) IN
    IF c = Ord("d")
    THEN [o |-> Convert2(yread_int(SkipIf(skip_space, s)), "int", cnt, slots), i |-> i]
    ELSE IF c = Ord("u")
    THEN [o |-> Convert2(yread_uint(SkipIf(skip_space, s)), "unsigned", cnt, slots),
          i |-> i]
    ELSE IF c = Ord("s")
    THEN [o |-> Convert2(yread_string(SkipIf(skip_space, s)), "string", cnt, slots),
          i |-> i]
    ELSE IF c = Ord("c")
    THEN [o |-> ReadChar2(skip_space, s, cnt, slots), i |-> i]
    ELSE IF c = Ord("l")
    THEN IF FmtAt(fmt, i + 1) = Ord("l")
         THEN IF FmtAt(fmt, i + 2) = Ord("d")
              THEN [o |-> Convert2(yread_ll(SkipIf(skip_space, s)), "long long", cnt, slots),
                    i |-> i + 2]
              ELSE IF FmtAt(fmt, i + 2) = Ord("u")
              THEN [o |-> Convert2(yread_ull(SkipIf(skip_space, s)),
                                   "unsigned long long", cnt, slots),
                    i |-> i + 2]
              ELSE [o |-> Invalid2(s, cnt, slots), i |-> i + 2]
         ELSE IF FmtAt(fmt, i + 1) = Ord("f")
         THEN [o |-> Convert2(yread_double(SkipIf(skip_space, s)), "double", cnt, slots),
               i |-> i + 1]
         ELSE [o |-> Invalid2(s, cnt, slots), i |-> i + 1]
    ELSE IF c = Ord("g") \/ c = Ord("e") \/ c = Ord("f")
    THEN [o |-> Convert2(yread_double_exp(SkipIf(skip_space, s)), "double", cnt, slots),
          i |-> i]
    ELSE [o |-> Invalid2(s, cnt, slots), i |-> i]

\* if (*fmt != '%') { skip_space = 0; fmt++; continue; }: the stream after
\* a literal byte of the format
Literal2(s) == s

RECURSIVE yscanf2_from(_, _, _, _, _, _)
\* the while (*fmt) loop, fmt pointing at fmt[i]
yscanf2_from(fmt, i, skip_space, s, cnt, slots) ==
    LET c == FmtAt(fmt, i)
        Directed(d) ==
            IF d.o.done THEN [s |-> d.o.s, ret |-> d.o.ret, slots |-> d.o.slots]
            ELSE yscanf2_from(fmt, d.i + 1, 0, d.o.s, d.o.cnt, d.o.slots)
    IN  IF c = 0 THEN [s |-> s, ret |-> cnt, slots |-> slots]
        ELSE IF isspace(c) THEN yscanf2_from(fmt, i + 1, 1, s, cnt, slots)
        ELSE IF c # Ord("%") THEN yscanf2_from(fmt, i + 1, 0, Literal2(s), cnt, slots)
        ELSE Directed(Directive2(fmt, i + 1, skip_space, s, cnt, slots))

\* yscanf(fmt, &slot1, &slot2) of yscanf2.h
yscanf2(fmt, s, slots) == yscanf2_from(fmt, 1, 0, s, 0, slots)

(* ========================= the program's state ========================= *)

VARIABLES
    hdr,      \* the header the program is built with: 2 (yscanf2.h), 3 (yscanf3.h)
    stdin,    \* the bytes of the stream not yet delivered by fread
    drained,  \* 1 once the stream has reported 0 bytes
    ybuf,     \* static char ybuf[YSCANF_BUFFER_SIZE]
    yptr,     \* yptr - ybuf
    yend,     \* yend - ybuf
    yeof,     \* static int yeof (yscanf3.h)
    op,       \* the function being returned from ("main": none)
    arg,      \* the format it was passed, for yscanf; <<maxlen>>, for a line reader
    pre,      \* the stream and the buffer when it was called
    freads,   \* the calls of fread it made
    ret,      \* what it returned (a byte, a count, EOF, -1)
    out,      \* the output slots as it left them
    loop      \* the read loop of the tests: the integers written to the stream
              \* and what each yscanf("%d", &val) of the loop returned and stored;
              \* for a run of yget: the stream's bytes and what each yget returned

vars ==
    <<hdr, stdin, drained, ybuf, yptr, yend, yeof, op, arg, pre, freads, ret, out,
      loop>>

\* the bytes the streams are drawn over
InputAlphabet == {Ord("7"), Ord(" "), Ord("-")}

Strings(alphabet, n) == UNION {[1..k -> alphabet] : k \in 0..n}

Inputs == Strings(InputAlphabet, MaxLen)

\* the type tags after '%': the seven documented ones, %lf, and unrecognized ones
Tags == { <<"d">>, <<"u">>, <<"l", "l", "d">>, <<"l", "l", "u">>, <<"f">>,
          <<"s">>, <<"c">>, <<"l", "f">>, <<"z">> }

\* a format's bytes, from its pieces
Fmt(pieces) == Str(pieces)

\* nothing, or whitespace, before a directive of the format
Seps == { <<>>, <<" ">> }

\* the formats the program calls yscanf with: the empty one; one directive,
\* after nothing or whitespace; two directives, the second a %d, a %c or an
\* unrecognized one, with nothing or whitespace between them; two with a
\* literal byte; and "%d %d %d"
Formats ==
    { <<>> }
    \cup { Fmt(sep \o <<"%">> \o tag) : sep \in { <<>>, <<" ">> }, tag \in Tags }
    \cup { Fmt(<<"%">> \o t1 \o sep \o <<"%">> \o t2) :
             t1 \in Tags, sep \in { <<>>, <<" ">> },
             t2 \in { <<"d">>, <<"c">>, <<"z">> } }
    \cup { Fmt(<<"x", "%", "d">>), Fmt(<<"%", "d", "x", "%", "d">>),
           Fmt(<<"%", "d", " ", "%", "d", " ", "%", "d">>) }

\* the stream and the buffer, with the size rd of the stream's reads (0: no
\* call is under way)
Cur(rd) ==
    [stdin |-> stdin, drained |-> drained, ybuf |-> ybuf, yptr |-> yptr,
     yend |-> yend, yeof |-> yeof, freads |-> 0, rd |-> rd]

\* the unread input of s: the buffer's rest, then the stream's
Unread(s) == SubSeq(s.ybuf, s.yptr + 1, s.yend) \o s.stdin

\* no read loop is under way
NoLoop == [ints |-> <<>>, rets |-> <<>>, vals |-> <<>>]

\* the function name(a) returns, leaving the stream and the buffer as s
Returning(name, a, s) ==
    /\ op = "main"
    /\ op' = name
    /\ arg' = a
    /\ pre' = Cur(s.rd)
    /\ stdin' = s.stdin
    /\ drained' = s.drained
    /\ ybuf' = s.ybuf
    /\ yptr' = s.yptr
    /\ yend' = s.yend
    /\ yeof' = s.yeof
    /\ freads' = s.freads
    /\ hdr' = hdr

\* the same, outside the read loop
Return(name, a, s) == Returning(name, a, s) /\ loop' = loop

Init ==
    /\ hdr \in {2, 3}
    /\ stdin \in Inputs
    /\ drained = 0
    /\ ybuf = [i \in 1..BufSize |-> 0]
    /\ yptr = 0
    /\ yend = 0
    /\ yeof = 0
    /\ op = "main"
    /\ arg = <<>>
    /\ pre = Cur(0)
    /\ freads = 0
    /\ ret = 0
    /\ out = NoSlots
    /\ loop = NoLoop

\* the caller goes on: what the call returned is its own from here
Resume ==
    /\ op # "main"
    /\ op' = "main"
    /\ arg' = <<>>
    /\ freads' = 0
    /\ ret' = 0
    /\ out' = NoSlots
    /\ pre' = Cur(0)
    /\ UNCHANGED <<hdr, stdin, drained, ybuf, yptr, yend, yeof, loop>>

\* a reader's value in the first slot
OneSlot(kind, r) ==
    IF r.w THEN [NoSlots EXCEPT ![1] = [w |-> TRUE, k |-> kind, v |-> r.v]]
    ELSE NoSlots

(* ------------------------ calls into yscanf3.h ------------------------- *)

Call_yget ==
    /\ hdr = 3
    /\ \E rd \in 1..BufSize :
         LET g == yget(Cur(rd)) IN
         Return("yget", <<>>, g.s) /\ ret' = g.c /\ out' = NoSlots

Call_ypeek ==
    /\ hdr = 3
    /\ \E rd \in 1..BufSize :
         LET g == ypeek(Cur(rd)) IN
         Return("ypeek", <<>>, g.s) /\ ret' = g.c /\ out' = NoSlots

Call_yskip_space ==
    /\ hdr = 3
    /\ \E rd \in 1..BufSize :
         Return("yskip_space", <<>>, yskip_space(Cur(rd)))
         /\ ret' = 0 /\ out' = NoSlots

Call_yread_int_ok ==
    /\ hdr = 3
    /\ \E rd \in 1..BufSize :
         LET r == yread_int_ok(Cur(rd)) IN
         Return("yread_int_ok", <<>>, r.s) /\ ret' = r.r /\ out' = OneSlot("int", r)

Call_yread_uint_ok ==
    /\ hdr = 3
    /\ \E rd \in 1..BufSize :
         LET r == yread_uint_ok(Cur(rd)) IN
         Return("yread_uint_ok", <<>>, r.s) /\ ret' = r.r
         /\ out' = OneSlot("unsigned", r)

Call_yread_ll_ok ==
    /\ hdr = 3
    /\ \E rd \in 1..BufSize :
         LET r == yread_ll_ok(Cur(rd)) IN
         Return("yread_ll_ok", <<>>, r.s) /\ ret' = r.r
         /\ out' = OneSlot("long long", r)

Call_yread_ull_ok ==
    /\ hdr = 3
    /\ \E rd \in 1..BufSize :
         LET r == yread_ull_ok(Cur(rd)) IN
         Return("yread_ull_ok", <<>>, r.s) /\ ret' = r.r
         /\ out' = OneSlot("unsigned long long", r)

Call_yread_double_ok ==
    /\ hdr = 3
    /\ \E rd \in 1..BufSize :
         LET r == yread_double_ok(Cur(rd)) IN
         Return("yread_double_ok", <<>>, r.s) /\ ret' = r.r
         /\ out' = OneSlot("double", r)

Call_yread_str_ok ==
    /\ hdr = 3
    /\ \E rd \in 1..BufSize :
         LET r == yread_str_ok(Cur(rd)) IN
         Return("yread_str_ok", <<>>, r.s) /\ ret' = r.r
         /\ out' = OneSlot("string", r)

\* the sizes of the destinations lines are read into
MaxDest == 3

Call_yread_line_ok ==
    /\ hdr = 3
    /\ \E rd \in 1..BufSize, maxlen \in 1..MaxDest :
         LET r == yread_line_ok(Cur(rd), maxlen) IN
         Return("yread_line_ok", <<maxlen>>, r.s) /\ ret' = r.r
         /\ out' = OneSlot("string", r)

Call_ygetline_ok ==
    /\ hdr = 3
    /\ \E rd \in 1..BufSize, maxlen \in 1..MaxDest :
         LET r == ygetline_ok(Cur(rd), maxlen) IN
         Return("ygetline_ok", <<maxlen>>, r.s) /\ ret' = r.r
         /\ out' = OneSlot("string", r)

\* yscanf of yscanf3.h called with a format of fmts
Scan3(fmts) ==
    /\ hdr = 3
    /\ \E fmt \in fmts, rd \in 1..BufSize :
         LET r == yscanf3(fmt, Cur(rd), NoSlots) IN
         Return("yscanf", fmt, r.s) /\ ret' = r.ret /\ out' = r.slots

Call_yscanf3 == Scan3(Formats)

(* ------------------------ calls into yscanf2.h ------------------------- *)

Call_yrefill ==
    /\ hdr = 2
    /\ \E rd \in 1..BufSize :
         Return("yrefill", <<>>, yrefill(Cur(rd))) /\ ret' = 0 /\ out' = NoSlots

Call_ynext_char ==
    /\ hdr = 2
    /\ \E rd \in 1..BufSize :
         LET g == ynext_char(Cur(rd)) IN
         Return("ynext_char", <<>>, g.s) /\ ret' = g.c /\ out' = NoSlots

Call_ypeek_char ==
    /\ hdr = 2
    /\ \E rd \in 1..BufSize :
         LET g == ypeek_char(Cur(rd)) IN
         Return("ypeek_char", <<>>, g.s) /\ ret' = g.c /\ out' = NoSlots

Call_yskip_space_input ==
    /\ hdr = 2
    /\ \E rd \in 1..BufSize :
         Return("yskip_space_input", <<>>, yskip_space_input(Cur(rd)))
         /\ ret' = 0 /\ out' = NoSlots

\* a reader of yscanf2.h returns its value: it is shown in the first slot
Returned(kind, r) == [NoSlots EXCEPT ![1] = [w |-> TRUE, k |-> kind, v |-> r.v]]

Call_yread_int ==
    /\ hdr = 2
    /\ \E rd \in 1..BufSize :
         LET r == yread_int(Cur(rd)) IN
         Return("yread_int", <<>>, r.s) /\ ret' = 0 /\ out' = Returned("int", r)

Call_yread_uint ==
    /\ hdr = 2
    /\ \E rd \in 1..BufSize :
         LET r == yread_uint(Cur(rd)) IN
         Return("yread_uint", <<>>, r.s) /\ ret' = 0
         /\ out' = Returned("unsigned", r)

Call_yread_ll ==
    /\ hdr = 2
    /\ \E rd \in 1..BufSize :
         LET r == yread_ll(Cur(rd)) IN
         Return("yread_ll", <<>>, r.s) /\ ret' = 0
         /\ out' = Returned("long long", r)

Call_yread_ull ==
    /\ hdr = 2
    /\ \E rd \in 1..BufSize :
         LET r == yread_ull(Cur(rd)) IN
         Return("yread_ull", <<>>, r.s) /\ ret' = 0
         /\ out' = Returned("unsigned long long", r)

Call_yread_double ==
    /\ hdr = 2
    /\ \E rd \in 1..BufSize :
         LET r == yread_double(Cur(rd)) IN
         Return("yread_double", <<>>, r.s) /\ ret' = 0
         /\ out' = Returned("double", r)

Call_yread_double_exp ==
    /\ hdr = 2
    /\ \E rd \in 1..BufSize :
         LET r == yread_double_exp(Cur(rd)) IN
         Return("yread_double_exp", <<>>, r.s) /\ ret' = 0
         /\ out' = Returned("double", r)

Call_yread_string ==
    /\ hdr = 2
    /\ \E rd \in 1..BufSize :
         LET r == yread_string(Cur(rd)) IN
         Return("yread_string", <<>>, r.s) /\ ret' = 0
         /\ out' = Returned("string", r)

\* yscanf of yscanf2.h called with a format of fmts
Scan2(fmts) ==
    /\ hdr = 2
    /\ \E fmt \in fmts, rd \in 1..BufSize :
         LET r == yscanf2(fmt, Cur(rd), NoSlots) IN
         Return("yscanf", fmt, r.s) /\ ret' = r.ret /\ out' = r.slots

Call_yscanf2 == Scan2(Formats)

Next ==
    \/ Resume
    \/ Call_yget
    \/ Call_ypeek
    \/ Call_yskip_space
    \/ Call_yread_int_ok
    \/ Call_yread_uint_ok
    \/ Call_yread_ll_ok
    \/ Call_yread_ull_ok
    \/ Call_yread_double_ok
    \/ Call_yread_str_ok
    \/ Call_yscanf3
    \/ Call_yrefill
    \/ Call_ynext_char
    \/ Call_ypeek_char
    \/ Call_yskip_space_input
    \/ Call_yread_int
    \/ Call_yread_uint
    \/ Call_yread_ll
    \/ Call_yread_ull
    \/ Call_yread_double
    \/ Call_yread_double_exp
    \/ Call_yread_string
    \/ Call_yscanf2

Spec == Init /\ [][Next]_vars

(* ------------------- the program reading numerals ---------------------- *)

\* the digits of the numerals read: around the limits of int, unsigned,
\* long long and unsigned long long, and runs that wrap 64 bits
Magnitudes ==
    {
      <<7>>,
      <<2, 1, 4, 7, 4, 8, 3, 6, 4, 7>>,
      <<2, 1, 4, 7, 4, 8, 3, 6, 4, 8>>,
      <<2, 1, 4, 7, 4, 8, 3, 6, 4, 9>>,
      <<4, 2, 9, 4, 9, 6, 7, 2, 9, 5>>,
      <<4, 2, 9, 4, 9, 6, 7, 2, 9, 6>>,
      <<9, 9, 9, 9, 9, 9, 9, 9, 9, 9>>,
      <<9, 2, 2, 3, 3, 7, 2, 0, 3, 6, 8, 5, 4, 7, 7, 5, 8, 0, 7>>,
      <<9, 2, 2, 3, 3, 7, 2, 0, 3, 6, 8, 5, 4, 7, 7, 5, 8, 0, 8>>,
      <<9, 2, 2, 3, 3, 7, 2, 0, 3, 6, 8, 5, 4, 7, 7, 5, 8, 0, 9>>,
      <<1, 8, 4, 4, 6, 7, 4, 4, 0, 7, 3, 7, 0, 9, 5, 5, 1, 6, 1, 5>>,
      <<1, 8, 4, 4, 6, 7, 4, 4, 0, 7, 3, 7, 0, 9, 5, 5, 1, 6, 1, 6>>,
      <<2, 0, 4, 9, 6, 3, 8, 2, 3, 0, 4, 1, 2, 1, 7, 2, 4, 0, 1, 8>>,
      <<2, 5, 0, 0, 0, 0, 0, 0, 0, 0, 0, 0, 0, 0, 0, 0, 0, 0, 0, 0>>,
      <<2, 7, 6, 7, 0, 1, 1, 6, 1, 1, 0, 5, 6, 4, 3, 2, 7, 4, 2, 4>>,
      <<9, 9, 9, 9, 9, 9, 9, 9, 9, 9, 9, 9, 9, 9, 9, 9, 9, 9, 9, 9>>,
      <<1, 8, 4, 4, 6, 7, 4, 4, 0, 7, 3, 7, 0, 9, 5, 5, 1, 6, 1, 5, 0>>,
      <<9, 9, 9, 9, 9, 9, 9, 9, 9, 9, 9, 9, 9, 9, 9, 9, 9, 9, 9, 9, 9, 9, 9, 9, 9, 9, 9>> }

\* a numeral: a sign ("": none) and its digits
Numerals == [sign : {"", "+", "-"}, digits : Magnitudes]

\* the bytes of a run of digits
DigitText(digits) == [i \in 1..Len(digits) |-> Ord("0") + digits[i]]

\* the bytes of a numeral
Text(n) == (IF n.sign = "" THEN <<>> ELSE <<Ord(n.sign)>>) \o DigitText(n.digits)

\* the int values printed as the stream
Int32Samples ==
    { -2147483647 - 1, -2147483647, -1000000000, -65536, -32769, -42, -10, -1,
      0, 1, 9, 10, 42, 32768, 65535, 65536, 999999999, 2147483646, 2147483647 }

RECURSIVE NegDigits(_)
\* the decimal digits of -v, for v <= 0 (-INT_MIN is no int)
NegDigits(v) ==
    IF v = 0 THEN <<>>
    ELSE LET d == (10 - (v % 10)) % 10
         IN  Append(NegDigits((v + d) \div 10), d)

RECURSIVE PosDigits(_)
PosDigits(v) == IF v = 0 THEN <<>> ELSE Append(PosDigits(v \div 10), v % 10)

\* printf("%d", v)
FormatInt(v) ==
    IF v = 0 THEN <<Ord("0")>>
    ELSE IF v < 0 THEN <<Ord("-")>> \o DigitText(NegDigits(v))
    ELSE DigitText(PosDigits(v))

\* the int v as its limbs
I32(v) == <<v % Limb, (v \div Limb) % Limb>>

\* what follows a numeral in the stream: its end, or whitespace
Tails == { <<>>, <<Ord(" ")>> }

\* the stream of test_overflow_handling
OverflowInput ==
    DigitText(<<9, 9, 9, 9, 9, 9, 9, 9, 9, 9, 9, 9, 9, 9, 9, 9, 9, 9, 9, 9, 9, 9, 9, 9, 9, 9, 9>>)
    \o <<Ord(" ")>> \o DigitText(<<4, 2, 9, 4, 9, 6, 7, 2, 9, 6>>)

NumInputs ==
    { Text(n) \o tail : n \in Numerals, tail \in Tails }
    \cup { FormatInt(v) \o tail : v \in Int32Samples, tail \in Tails }
    \cup { OverflowInput }

\* the formats of the integer conversions
NumFormats ==
    { Fmt(<<"%", "d">>), Fmt(<<"%", "u">>), Fmt(<<"%", "l", "l", "d">>),
      Fmt(<<"%", "l", "l", "u">>), Fmt(<<"%", "d", " ", "%", "u">>) }

InitNum ==
    /\ hdr \in {2, 3}
    /\ stdin \in NumInputs
    /\ drained = 0
    /\ ybuf = [i \in 1..BufSize |-> 0]
    /\ yptr = 0
    /\ yend = 0
    /\ yeof = 0
    /\ op = "main"
    /\ arg = <<>>
    /\ pre = Cur(0)
    /\ freads = 0
    /\ ret = 0
    /\ out = NoSlots
    /\ loop = NoLoop

NextNum ==
    \/ Resume
    \/ Call_yread_int_ok
    \/ Call_yread_uint_ok
    \/ Call_yread_ll_ok
    \/ Call_yread_ull_ok
    \/ Scan3(NumFormats)
    \/ Call_yread_int
    \/ Call_yread_uint
    \/ Call_yread_ll
    \/ Call_yread_ull
    \/ Scan2(NumFormats)

SpecNum == InitNum /\ [][NextNum]_vars

(* ---------------------- the program's read loop ------------------------ *)

\* the most integers the tests write to the stream
MaxInts == 2

\* the calls of yscanf made after the one that ended the loop
ExtraCalls == 2

\* the integers written
LoopSamples == { -2147483647 - 1, -42, 0, 7, 2147483647 }

IntSeqs == UNION { [1..n -> LoopSamples] : n \in 0..MaxInts }

\* the whitespace written after an integer: fprintf(f, "%d ", v), a line an
\* integer, a tab and a space
LoopSeps == { <<Ord(" ")>>, <<Ord("\n")>>, <<Ord("\t"), Ord(" ")>> }

RECURSIVE Written(_, _, _)
\* the stream of the integers ints, sep between them and last after them
Written(ints, sep, last) ==
    IF ints = <<>> THEN <<>>
    ELSE IF Len(ints) = 1 THEN FormatInt(ints[1]) \o last
    ELSE FormatInt(ints[1]) \o sep \o Written(Tail(ints), sep, last)

InitLoop ==
    /\ hdr = 3
    /\ \E ints \in IntSeqs, sep \in LoopSeps, last \in { <<>>, <<Ord(" ")>>, <<Ord("\n")>> } :
         /\ stdin = Written(ints, sep, last)
         /\ loop = [ints |-> ints, rets |-> <<>>, vals |-> <<>>]
    /\ drained = 0
    /\ ybuf = [i \in 1..BufSize |-> 0]
    /\ yptr = 0
    /\ yend = 0
    /\ yeof = 0
    /\ op = "main"
    /\ arg = <<>>
    /\ pre = Cur(0)
    /\ freads = 0
    /\ ret = 0
    /\ out = NoSlots

\* while (yscanf("%d", &val) == 1): one evaluation of the loop's condition,
\* and the calls the program makes once the loop has ended
LoopCall ==
    /\ hdr = 3
    /\ Len(loop.rets) < Len(loop.ints) + ExtraCalls
    /\ \E rd \in 1..BufSize :
         LET r == yscanf3(Fmt(<<"%", "d">>), Cur(rd), NoSlots) IN
         /\ Returning("yscanf", Fmt(<<"%", "d">>), r.s)
         /\ ret' = r.ret
         /\ out' = r.slots
         /\ loop' = [loop EXCEPT !.rets = Append(@, r.ret),
                                 !.vals = Append(@, r.slots[1])]

NextLoop ==
    \/ Resume
    \/ LoopCall

SpecLoop == InitLoop /\ [][NextLoop]_vars

(* ------------------- the program reading byte by byte ------------------ *)

\* the most bytes of a stream read byte by byte
MaxBytes == 4

\* the streams read byte by byte
ByteInputs == Strings({Ord("a"), Ord("c"), Ord(" ")}, MaxBytes)

InitBytes ==
    /\ hdr \in {2, 3}
    /\ stdin \in ByteInputs
    /\ loop = [ints |-> stdin, rets |-> <<>>, vals |-> <<>>]
    /\ drained = 0
    /\ ybuf = [i \in 1..BufSize |-> 0]
    /\ yptr = 0
    /\ yend = 0
    /\ yeof = 0
    /\ op = "main"
    /\ arg = <<>>
    /\ pre = Cur(0)
    /\ freads = 0
    /\ ret = 0
    /\ out = NoSlots

\* a yget of the run: the byte, or EOF, it returns is the run's next
GetCall ==
    /\ hdr = 3
    /\ Len(loop.rets) < Len(loop.ints) + ExtraCalls
    /\ \E rd \in 1..BufSize :
         LET g == yget(Cur(rd)) IN
         /\ Returning("yget", <<>>, g.s)
         /\ ret' = g.c
         /\ out' = NoSlots
         /\ loop' = [loop EXCEPT !.rets = Append(@, g.c)]

NextBytes ==
    \/ Resume
    \/ GetCall
    \/ Call_ypeek
    \/ Call_ynext_char
    \/ Call_ypeek_char

SpecBytes == InitBytes /\ [][NextBytes]_vars

(* ------------- the program reading tokens that are no numerals --------- *)

\* the streams: digits, signs, a letter and spaces
MalInputs == Strings({Ord("7"), Ord("-"), Ord("+"), Ord("a"), Ord(" ")}, MaxLen)

\* the signed integer conversions, alone and after another
MalFormats ==
    { Fmt(<<"%">> \o t) : t \in { <<"d">>, <<"l", "l", "d">> } }
    \cup { Fmt(<<"%">> \o t1 \o <<" ", "%">> \o t2) :
             t1 \in { <<"d">>, <<"l", "l", "d">> }, t2 \in { <<"d">>, <<"l", "l", "d">> } }

InitMal ==
    /\ hdr = 3
    /\ stdin \in MalInputs
    /\ drained = 0
    /\ ybuf = [i \in 1..BufSize |-> 0]
    /\ yptr = 0
    /\ yend = 0
    /\ yeof = 0
    /\ op = "main"
    /\ arg = <<>>
    /\ pre = Cur(0)
    /\ freads = 0
    /\ ret = 0
    /\ out = NoSlots
    /\ loop = NoLoop

NextMal ==
    \/ Resume
    \/ Call_yread_int_ok
    \/ Call_yread_ll_ok
    \/ Scan3(MalFormats)

SpecMal == InitMal /\ [][NextMal]_vars

(* ------------- the program reading 64-bit boundary values -------------- *)

\* long long values as their limbs: 0, 1, 42, 2^16, 2^32, -1, -42, -2^32,
\* and the values at the ends of the range
Signed64Samples ==
    { Zero64, <<1, 0, 0, 0>>, <<42, 0, 0, 0>>, <<0, 1, 0, 0>>, <<0, 0, 1, 0>>,
      <<65535, 65535, 65535, 65535>>, <<65494, 65535, 65535, 65535>>,
      <<0, 0, 65535, 65535>>,
      <<65534, 65535, 65535, 32767>>, LLONG_MAX,
      LLONG_MIN, <<1, 0, 0, 32768>> }

\* unsigned long long values as their limbs: 0, 7, 2^32, 2^63 - 1, 2^63,
\* ULLONG_MAX - 1, ULLONG_MAX
Unsigned64Samples ==
    { Zero64, <<7, 0, 0, 0>>, <<0, 0, 1, 0>>, LLONG_MAX, <<0, 0, 0, 32768>>,
      <<65534, 65535, 65535, 65535>>, ULLONG_MAX }

RECURSIVE Div10(_, _, _)
\* limbs 1..i of (rem * 2^(16 * i) + x) / 10 as q, and the remainder r
Div10(x, i, rem) ==
    LET Low(d, t) == [q |-> Append(d.q, t \div 10), r |-> d.r]
        High(t) == Low(Div10(x, i - 1, t % 10), t)
    IN  IF i = 0 THEN [q |-> <<>>, r |-> rem] ELSE High(rem * Limb + x[i])

RECURSIVE Digits64(_)
\* the decimal digits of x > 0, x unsigned
Digits64(x) ==
    LET Rest(d) == Append(Digits64(d.q), d.r)
    IN  IF \A i \in 1..Len(x) : x[i] = 0 THEN <<>> ELSE Rest(Div10(x, Len(x), 0))

\* printf("%llu", x)
FormatU64(x) == IF x = Zero64 THEN <<Ord("0")>> ELSE DigitText(Digits64(x))

\* printf("%lld", v)
FormatS64(v) == IF IsNeg(v) THEN <<Ord("-")>> \o FormatU64(Neg(v)) ELSE FormatU64(v)

\* the streams of test_long_long and test_unsigned_long_long
TestLL == FormatS64(LLONG_MAX) \o <<Ord(" ")>> \o FormatS64(LLONG_MIN) \o Str(<<" ", "0">>)

TestULL ==
    FormatU64(ULLONG_MAX) \o Str(<<" ", "0", " ">>) \o FormatU64(<<0, 0, 0, 32768>>)

Inputs64 ==
    { FormatS64(v) \o tail : v \in Signed64Samples, tail \in Tails }
    \cup { FormatU64(x) \o tail : x \in Unsigned64Samples, tail \in Tails }
    \cup { TestLL, TestULL }

\* the formats of the 64-bit conversions, and those of the two tests
Formats64 ==
    { Fmt(<<"%", "l", "l", "d">>), Fmt(<<"%", "l", "l", "u">>),
      Fmt(<<"%", "l", "l", "d", " ", "%", "l", "l", "d", " ", "%", "l", "l", "d">>),
      Fmt(<<"%", "l", "l", "u", " ", "%", "l", "l", "u", " ", "%", "l", "l", "u">>) }

Init64 ==
    /\ hdr = 2
    /\ stdin \in Inputs64
    /\ drained = 0
    /\ ybuf = [i \in 1..BufSize |-> 0]
    /\ yptr = 0
    /\ yend = 0
    /\ yeof = 0
    /\ op = "main"
    /\ arg = <<>>
    /\ pre = Cur(0)
    /\ freads = 0
    /\ ret = 0
    /\ out = NoSlots
    /\ loop = NoLoop

Next64 ==
    \/ Resume
    \/ Call_yread_ll
    \/ Call_yread_ull
    \/ Scan2(Formats64)

Spec64 == Init64 /\ [][Next64]_vars

(* -------------- the loops that scale by a power of ten ---------------- *)

\* the largest exponent of yread_double_exp: power = 1e308
ExpCap == 308

RECURSIVE IntOf(_, _)
\* ep=ep*10+(c-'0') over the digits ds, from ep (an int; the runs of
\* digits here stay far below its range)
IntOf(ds, ep) == IF ds = <<>> THEN ep ELSE IntOf(Tail(ds), ep * 10 + Head(ds))

\* eight iterations of a loop whose iteration is Body, from the loop's
\* state l (an iteration of a loop that has ended changes nothing)
Times8(Body(_), l) == Body(Body(Body(Body(Body(Body(Body(Body(l))))))))

\* a loop's state at its start: i, the multiplications or divisions made n,
\* power as the 10^k it is
LoopStart(exp, k) == [exp |-> exp, i |-> 0, k |-> k, n |-> 0, done |-> FALSE]

\* while(ep--)p*=10; : one iteration (exp is ep)
Mul3(l) ==
    IF l.done THEN l
    ELSE IF l.exp = 0 THEN [l EXCEPT !.done = TRUE]
    ELSE [l EXCEPT !.exp = @ - 1, !.k = @ + 1, !.n = @ + 1]

RECURSIVE PowerLoop3(_)
\* double p=1; while(ep--)p*=10; : the multiplications made
PowerLoop3(l) == IF l.done THEN l.n ELSE PowerLoop3(Times8(Mul3, l))

\* power > 1e300, power being the product of k factors 10.0 (the rounded
\* product of 300 factors is above the literal 1e300)
Above1e300(k) == k >= 300

\* for (i = 0; i < exp; i++) { if (power > 1e300) break; power *= 10.0; }
\* : one iteration
Up2(l) ==
    IF l.done THEN l
    ELSE IF ~(l.i < l.exp) \/ Above1e300(l.k) THEN [l EXCEPT !.done = TRUE]
    ELSE [l EXCEPT !.i = @ + 1, !.k = @ + 1, !.n = @ + 1]

RECURSIVE PowerUp2(_)
PowerUp2(l) == IF l.done THEN l.n ELSE PowerUp2(Times8(Up2, l))

\* for (i = 0; i < exp; i++) power /= 10.0; : one iteration
Down2(l) ==
    IF l.done THEN l
    ELSE IF ~(l.i < l.exp) THEN [l EXCEPT !.done = TRUE]
    ELSE [l EXCEPT !.i = @ + 1, !.k = @ - 1, !.n = @ + 1]

RECURSIVE PowerDown2(_)
PowerDown2(l) == IF l.done THEN l.n ELSE PowerDown2(Times8(Down2, l))

\* the iterations of yread_double_ok's scaling loop for the double v
ScaleSteps3(v) == PowerLoop3(LoopStart(IntOf(v[5], 0), 0))

\* the iterations of yread_double_exp's scaling loop for the double v:
\* power = 1e308; if (exp < 308) power = 1.0;
ScaleSteps2(v) ==
    LET Scaled(exp) ==
            IF v[4] = 1 THEN PowerUp2(LoopStart(exp, IF exp < ExpCap THEN 0 ELSE ExpCap))
            ELSE PowerDown2(LoopStart(exp, 0))
    IN  Scaled(IntOf(v[5], 0))

\* exponents around the cap of yread_double_exp, and small ones
ExpSamples ==
    { <<0>>, <<7>>, <<2, 9, 9>>, <<3, 0, 0>>, <<3, 0, 1>>, <<3, 0, 7>>, <<3, 0, 8>>,
      <<3, 0, 9>>, <<4, 0, 0>> }

\* a mantissa; nothing or a space (after which yread_double_exp sees the
\* 'e'); 'e' or 'E'; a sign; the exponent
ExpInputs ==
    { mant \o sep \o e \o sign \o DigitText(x) :
        mant \in { Str(<<"1">>), Str(<<"-", "2", ".", "5">>) },
        sep \in { <<>>, <<Ord(" ")>> },
        e \in { Str(<<"e">>), Str(<<"E">>) },
        sign \in { <<>>, Str(<<"+">>), Str(<<"-">>) },
        x \in ExpSamples }

ExpFormats == { Fmt(<<"%", "f">>), Fmt(<<"%", "e">>), Fmt(<<"%", "g">>) }

InitExp ==
    /\ hdr \in {2, 3}
    /\ stdin \in ExpInputs
    /\ drained = 0
    /\ ybuf = [i \in 1..BufSize |-> 0]
    /\ yptr = 0
    /\ yend = 0
    /\ yeof = 0
    /\ op = "main"
    /\ arg = <<>>
    /\ pre = Cur(0)
    /\ freads = 0
    /\ ret = 0
    /\ out = NoSlots
    /\ loop = NoLoop

NextExp ==
    \/ Resume
    \/ Call_yread_double_ok
    \/ Scan3(ExpFormats)
    \/ Call_yread_double_exp
    \/ Scan2(ExpFormats)

SpecExp == InitExp /\ [][NextExp]_vars

(* ------- the program using formats with whitespace and literals -------- *)

\* streams of digits, of the byte the formats have as a literal, and spaces
FmtInputs == Strings({Ord("7"), Ord("x"), Ord(" ")}, MaxLen)

\* formats made of a whitespace byte, a literal byte, or these around %d and
\* %c
FmtFormats ==
    { Fmt(<<" ">>), Fmt(<<"%", "d", " ">>), Fmt(<<"x">>), Fmt(<<"x", "%", "d">>),
      Fmt(<<"%", "d", "x">>), Fmt(<<"%", "d", "x", "%", "d">>),
      Fmt(<<"x", "%", "c">>), Fmt(<<" ", "x", "%", "d">>) }

InitFmt ==
    /\ hdr \in {2, 3}
    /\ stdin \in FmtInputs
    /\ drained = 0
    /\ ybuf = [i \in 1..BufSize |-> 0]
    /\ yptr = 0
    /\ yend = 0
    /\ yeof = 0
    /\ op = "main"
    /\ arg = <<>>
    /\ pre = Cur(0)
    /\ freads = 0
    /\ ret = 0
    /\ out = NoSlots
    /\ loop = NoLoop

NextFmt ==
    \/ Resume
    \/ Scan3(FmtFormats)
    \/ Scan2(FmtFormats)

SpecFmt == InitFmt /\ [][NextFmt]_vars

(* ------------------ the program using every type tag ------------------- *)

\* the type tags of the README's table, %lf of its usage example, and %lli
AllTags ==
    { <<"d">>, <<"u">>, <<"l", "l", "d">>, <<"l", "l", "i">>, <<"l", "l", "u">>,
      <<"f">>, <<"e">>, <<"g">>, <<"l", "f">>, <<"s">>, <<"c">> }

\* one directive of every tag
TagFormats == { Fmt(<<"%">> \o tag) : tag \in AllTags }

\* the tokens of the streams: the numerals of test_floating_point, integers,
\* and a token that is no numeral
TagTokens ==
    { Str(<<"1", ".", "2", "3", "e", "4">>),
      Str(<<"-", "5", ".", "6", "7", "e", "-", "8">>),
      Str(<<"3", ".", "1", "4">>),
      Str(<<"7", "E", "+", "7">>),
      Str(<<"7">>), Str(<<"-", "7">>), Str(<<"a">>) }

TagInputs ==
    { <<>>, <<Ord(" ")>> }
    \cup { lead \o token \o tail :
             lead \in { <<>>, <<Ord(" ")>> }, token \in TagTokens, tail \in Tails }

InitTags ==
    /\ hdr \in {2, 3}
    /\ stdin \in TagInputs
    /\ drained = 0
    /\ ybuf = [i \in 1..BufSize |-> 0]
    /\ yptr = 0
    /\ yend = 0
    /\ yeof = 0
    /\ op = "main"
    /\ arg = <<>>
    /\ pre = Cur(0)
    /\ freads = 0
    /\ ret = 0
    /\ out = NoSlots
    /\ loop = NoLoop

NextTags ==
    \/ Resume
    \/ Scan3(TagFormats)
    \/ Scan2(TagFormats)

SpecTags == InitTags /\ [][NextTags]_vars

(* --------------- the program reading after whitespace ------------------ *)

\* the most whitespace bytes before a token
MaxWs == 2

\* the whitespace bytes: space, \t, \n, \v, \f, \r
WhiteSpace == {32, 9, 10, 11, 12, 13}

\* the tokens of test_whitespace_handling, and a negative integer
WsTokens ==
    { Str(<<"4", "2">>), Str(<<"-", "7">>), Str(<<"3", ".", "1", "4">>),
      Str(<<"h", "e", "l", "l", "o">>) }

\* a token after up to MaxWs whitespace bytes, whitespace or nothing after it
WsInputs ==
    { ws \o token \o tail :
        ws \in Strings(WhiteSpace, MaxWs), token \in WsTokens, tail \in Tails }

\* the tags whose readers skip leading whitespace
SkippingTags ==
    { <<"d">>, <<"u">>, <<"l", "l", "d">>, <<"l", "l", "u">>, <<"f">>, <<"s">> }

\* one such directive, after nothing or whitespace in the format
WsFormats == { Fmt(lead \o <<"%">> \o tag) : lead \in Seps, tag \in SkippingTags }

InitWs ==
    /\ hdr \in {2, 3}
    /\ stdin \in WsInputs
    /\ drained = 0
    /\ ybuf = [i \in 1..BufSize |-> 0]
    /\ yptr = 0
    /\ yend = 0
    /\ yeof = 0
    /\ op = "main"
    /\ arg = <<>>
    /\ pre = Cur(0)
    /\ freads = 0
    /\ ret = 0
    /\ out = NoSlots
    /\ loop = NoLoop

NextWs ==
    \/ Resume
    \/ Call_yskip_space
    \/ Scan3(WsFormats)
    \/ Scan2(WsFormats)

SpecWs == InitWs /\ [][NextWs]_vars

(* ---------------------- the program reading words ---------------------- *)

\* the stream of test_string_reading
TestStringInput ==
    Str(<<"h", "e", "l", "l", "o", " ", "w", "o", "r", "l", "d", " ",
          "t", "e", "s", "t", "1", "2", "3">>)

\* the streams words are read from: short ones of letters, spaces and
\* newlines, and the test's
StrInputs ==
    Strings({Ord("h"), Ord("o"), Ord(" "), Ord("\n")}, MaxLen) \cup { TestStringInput }

\* the formats of test_string_reading, and one %s
StrFormats == { Fmt(<<"%", "s">>), Fmt(<<"%", "s", " ", "%", "s", " ", "%", "s">>) }

InitStr ==
    /\ hdr = 3
    /\ stdin \in StrInputs
    /\ drained = 0
    /\ ybuf = [i \in 1..BufSize |-> 0]
    /\ yptr = 0
    /\ yend = 0
    /\ yeof = 0
    /\ op = "main"
    /\ arg = <<>>
    /\ pre = Cur(0)
    /\ freads = 0
    /\ ret = 0
    /\ out = NoSlots
    /\ loop = NoLoop

NextStr ==
    \/ Resume
    \/ Call_yread_str_ok
    \/ Scan3(StrFormats)

SpecStr == InitStr /\ [][NextStr]_vars

(* ---------------------- the program reading lines ---------------------- *)

\* the most bytes of a stream of lines
MaxLine == 4

\* the streams lines are read from: letters, spaces and the bytes that end
\* a line
LineInputs == Strings({Ord("h"), Ord(" "), Ord("\n"), Ord("\r")}, MaxLine)

InitLine ==
    /\ hdr = 3
    /\ stdin \in LineInputs
    /\ drained = 0
    /\ ybuf = [i \in 1..BufSize |-> 0]
    /\ yptr = 0
    /\ yend = 0
    /\ yeof = 0
    /\ op = "main"
    /\ arg = <<>>
    /\ pre = Cur(0)
    /\ freads = 0
    /\ ret = 0
    /\ out = NoSlots
    /\ loop = NoLoop

NextLine ==
    \/ Resume
    \/ Call_yread_line_ok
    \/ Call_ygetline_ok

SpecLine == InitLine /\ [][NextLine]_vars

(* ---------- the program reading lines into any destination ------------ *)

\* yread_line_ok called with a maxlen of sizes
LineInto(sizes) ==
    /\ hdr = 3
    /\ \E rd \in 1..BufSize, maxlen \in sizes :
         LET r == yread_line_ok(Cur(rd), maxlen) IN
         Return("yread_line_ok", <<maxlen>>, r.s) /\ ret' = r.r
         /\ out' = OneSlot("string", r)

\* ygetline_ok called with a maxlen of sizes
GetLineInto(sizes) ==
    /\ hdr = 3
    /\ \E rd \in 1..BufSize, maxlen \in sizes :
         LET r == ygetline_ok(Cur(rd), maxlen) IN
         Return("ygetline_ok", <<maxlen>>, r.s) /\ ret' = r.r
         /\ out' = OneSlot("string", r)

\* the destinations of no byte included
NextDest ==
    \/ Resume
    \/ LineInto(0..MaxDest)
    \/ GetLineInto(0..MaxDest)

SpecDest == InitLine /\ [][NextDest]_vars

(* ============================ properties =============================== *)

IsPrefix(p, q) == Len(p) <= Len(q) /\ SubSeq(q, 1, Len(p)) = p

\* str is empty or holds only whitespace
AllSpace(str) == \A i \in 1..Len(str) : isspace(str[i])

\* the tags yscanf of yscanf3.h converts
Conversions3 == { <<"d">>, <<"u">>, <<"l", "l", "d">>, <<"l", "l", "u">>, <<"f">>,
                  <<"s">>, <<"c">> }

\* the reader yscanf of yscanf3.h applies for a tag
Reader3(tag, s) ==
    CASE tag = <<"d">> -> yread_int_ok(s)
      [] tag = <<"u">> -> yread_uint_ok(s)
      [] tag = <<"l", "l", "d">> -> yread_ll_ok(s)
      [] tag = <<"l", "l", "u">> -> yread_ull_ok(s)
      [] tag = <<"f">> -> yread_double_ok(s)
      [] tag = <<"e">> -> yread_double_ok(s)
      [] tag = <<"g">> -> yread_double_ok(s)
      [] tag = <<"s">> -> yread_str_ok(s)
      [] tag = <<"c">> -> ReadChar3(s)

\* a yscanf of yscanf3.h has returned
Scanned3 == hdr = 3 /\ op = "yscanf"
\* a yscanf of yscanf2.h has returned
Scanned2 == hdr = 2 /\ op = "yscanf"

RECURSIVE Directives(_, _)
\* the format of the directives of tags, sep between them
Directives(tags, sep) ==
    IF Len(tags) = 1 THEN <<"%">> \o tags[1]
    ELSE <<"%">> \o Head(tags) \o sep \o Directives(Tail(tags), sep)

RECURSIVE ReadInTurn3(_, _, _, _)
\* the readers of tags applied in turn from s, whitespace skipped between
\* them when sep is whitespace: the values vals stored before the first
\* reader that reports none, and whether one did
ReadInTurn3(tags, sep, s, vals) ==
    LET Read(r) ==
            IF r.r = 0 THEN [failed |-> TRUE, vals |-> vals]
            ELSE ReadInTurn3(Tail(tags), sep,
                             IF sep = <<>> THEN r.s ELSE yskip_space(r.s),
                             Append(vals, r.v))
    IN  IF tags = <<>> THEN [failed |-> FALSE, vals |-> vals]
        ELSE Read(Reader3(Head(tags), s))

\* the directives of the formats of two and three conversions
TagLists3 ==
    { <<t1, t2>> : t1 \in Conversions3, t2 \in { <<"d">>, <<"c">> } }
    \cup { << <<"d">>, <<"d">>, <<"d">> >> }

\* C1: yscanf of yscanf3.h: when the reader of the (k+1)-th conversion
\* directive is the first to report no value and k >= 1, the call returns
\* k, the first k slots hold the values of the first k readers and every
\* later slot is untouched.
C1_PartialSuccess ==
    \A tags \in TagLists3, sep \in Seps :
        (Scanned3 /\ arg = Fmt(Directives(tags, sep))) =>
            LET Outcome(o) ==
                    (o.failed /\ Len(o.vals) >= 1) =>
                        /\ ret = Len(o.vals)
                        /\ \A j \in 1..Len(out) :
                               IF j <= Len(o.vals)
                               THEN out[j].w /\ out[j].v = o.vals[j]
                               ELSE out[j] = Untouched
            IN  Outcome(ReadInTurn3(tags, sep, pre, <<>>))

\* "%d %d %d" on the stream "7 7": 2, the first two slots 7, the third
\* untouched
C1_Witness ==
    /\ Scanned3
    /\ arg = Str(<<"%", "d", " ", "%", "d", " ", "%", "d">>)
    /\ Unread(pre) = Str(<<"7", " ", "7">>)
    /\ ret = 2
    /\ out[1] = [w |-> TRUE, k |-> "int", v |-> <<7, 0>>]
    /\ out[2] = [w |-> TRUE, k |-> "int", v |-> <<7, 0>>]
    /\ out[3] = Untouched

\* the call's first directive is a conversion, after nothing or whitespace,
\* and the stream holds nothing but whitespace
NoInputAt(lead, tag) ==
    /\ IsPrefix(Fmt(lead \o <<"%">> \o tag), arg)
    /\ AllSpace(Unread(pre))

\* C2: yscanf of yscanf3.h: when the stream is empty as the first
\* conversion directive is reached, or holds only whitespace and that
\* directive is not %c, the call returns EOF and writes no slot.
C2_EndOfInput ==
    \A lead \in Seps, tag \in Conversions3 :
        (Scanned3 /\ NoInputAt(lead, tag)
         /\ (tag # <<"c">> \/ lead # <<>> \/ Unread(pre) = <<>>)) =>
            ret = EOF /\ out = NoSlots

\* "%d" on the stream " ": EOF, no slot written
C2_Witness ==
    /\ Scanned3
    /\ arg = Str(<<"%", "d">>)
    /\ Unread(pre) = Str(<<" ">>)
    /\ ret = EOF
    /\ out = NoSlots

\* C2 as stated: whenever the stream is empty or holds only whitespace as
\* the first conversion directive is reached, the call returns EOF and
\* writes no slot.
C2_AsStated ==
    \A lead \in Seps, tag \in Conversions3 :
        (Scanned3 /\ NoInputAt(lead, tag)) => ret = EOF /\ out = NoSlots

\* the directives of yscanf2.h that read a token
Tokens2 == { <<"d">>, <<"u">>, <<"l", "l", "d">>, <<"l", "l", "u">>, <<"f">>, <<"s">> }

\* C3 as stated: yscanf of yscanf2.h: when the stream ends before a %d, %u,
\* %lld, %llu, %f or %s directive reads a token, the directive is not
\* counted and its slot is not written: the call returns EOF when it is the
\* first directive, and "%d %d" on a stream of one numeral returns 1.
C3_AsStated ==
    /\ \A lead \in Seps, tag \in Tokens2 :
           (Scanned2 /\ NoInputAt(lead, tag)) => ret = EOF /\ out = NoSlots
    /\ (Scanned2 /\ arg = Str(<<"%", "d", " ", "%", "d">>) /\ Unread(pre) = Str(<<"7">>)) =>
           ret = 1 /\ out[2] = Untouched

\* the tags yscanf of header h does not recognize, among Tags
Unrecognized(h) == IF h = 3 THEN { <<"z">>, <<"l", "f">> } ELSE { <<"z">> }

\* C4: yscanf of both headers returns -1 when it reaches a directive of an
\* unrecognized tag: as the first directive, writing no slot, and as the
\* second one after a conversion that stored its value, whatever the count.
C4_InvalidFormat ==
    \A tag \in Unrecognized(hdr) :
        /\ \A lead \in Seps :
               (op = "yscanf" /\ IsPrefix(Fmt(lead \o <<"%">> \o tag), arg)) =>
                   ret = -1 /\ out = NoSlots
        /\ \A t1 \in Tags \ Unrecognized(hdr), sep \in Seps :
               (op = "yscanf" /\ arg = Fmt(<<"%">> \o t1 \o sep \o <<"%">> \o tag)
                /\ out[1].w) => ret = -1

\* "%d%z" on a stream starting with "7": the %d stored 7, the call returned -1
C4_Witness ==
    /\ op = "yscanf"
    /\ arg = Str(<<"%", "d", "%", "z">>)
    /\ out[1] = [w |-> TRUE, k |-> "int", v |-> <<7, 0>>]
    /\ ret = -1

\* C5: yscanf3.h: once a read of the stream has returned 0 bytes, yeof is 1,
\* and a function called after that returns without reading the stream
\* again, yget and ypeek returning EOF.
C5_EofLatch ==
    hdr = 3 =>
        /\ drained = 1 => yeof = 1
        /\ pre.drained = 1 =>
               /\ freads = 0
               /\ op \in {"yget", "ypeek"} => ret = EOF

\* a yget called after the stream has returned 0 bytes
C5_Witness ==
    /\ hdr = 3
    /\ op = "yget"
    /\ pre.drained = 1
    /\ pre.yeof = 1
    /\ ret = EOF
    /\ freads = 0

\* C6: ybuf <= yptr <= yend <= ybuf + YSCANF_BUFFER_SIZE, in both headers
C6_CursorInvariant == 0 <= yptr /\ yptr <= yend /\ yend <= BufSize

\* a short read partly consumed, in a full buffer consumed to its end later
C6_Witness ==
    /\ op # "main"
    /\ pre.yptr > 0 /\ pre.yptr < pre.yend /\ pre.yend < BufSize + 1
    /\ yptr = yend
    /\ yend = BufSize

\* a < b, both runs of decimal digits without leading zeros
DecLt(a, b) ==
    \/ Len(a) < Len(b)
    \/ /\ Len(a) = Len(b)
       /\ \E i \in 1..Len(a) : a[i] < b[i] /\ \A j \in 1..(i - 1) : a[j] = b[j]

\* the digits of INT32_MAX, 2^31, UINT32_MAX, LLONG_MAX, 2^63 and ULLONG_MAX
DecInt32Max == <<2, 1, 4, 7, 4, 8, 3, 6, 4, 7>>
DecTwo31 == <<2, 1, 4, 7, 4, 8, 3, 6, 4, 8>>
DecUint32Max == <<4, 2, 9, 4, 9, 6, 7, 2, 9, 5>>
DecLlongMax == <<9, 2, 2, 3, 3, 7, 2, 0, 3, 6, 8, 5, 4, 7, 7, 5, 8, 0, 7>>
DecTwo63 == <<9, 2, 2, 3, 3, 7, 2, 0, 3, 6, 8, 5, 4, 7, 7, 5, 8, 0, 8>>
DecUllongMax == <<1, 8, 4, 4, 6, 7, 4, 4, 0, 7, 3, 7, 0, 9, 5, 5, 1, 6, 1, 5>>

\* the call under way was given the stream str, to its end
Given(str) == Unread(pre) = str

\* yscanf has returned from the format of one directive
Scanned(tag) == op = "yscanf" /\ arg = Fmt(<<"%">> \o tag)

\* C7: the decimal text of an int v, read with "%d" or by the reader of
\* "%d", gives v: yscanf returns 1 and the slot holds v, in both headers.
C7_RoundTrip32 ==
    \A v \in Int32Samples, tail \in Tails :
        Given(FormatInt(v) \o tail) =>
            /\ Scanned(<<"d">>) =>
                   ret = 1 /\ out[1] = [w |-> TRUE, k |-> "int", v |-> I32(v)]
            /\ op = "yread_int_ok" =>
                   ret = 1 /\ out[1] = [w |-> TRUE, k |-> "int", v |-> I32(v)]
            /\ op = "yread_int" => out[1] = [w |-> TRUE, k |-> "int", v |-> I32(v)]

\* yscanf("%d") of yscanf2.h on "-2147483648" has stored INT32_MIN
C7_Witness ==
    /\ hdr = 2
    /\ Scanned(<<"d">>)
    /\ Given(FormatInt(-2147483647 - 1))
    /\ Len(Unread(pre)) = 11
    /\ ret = 1
    /\ out[1].v = INT32_MIN

\* the stream was a numeral above INT32_MAX, unsigned or after '+'
AboveInt(n) == n.sign # "-" /\ DecLt(DecInt32Max, n.digits)
\* the stream was a numeral after '-', of a magnitude above 2^31
BelowInt(n) == n.sign = "-" /\ DecLt(DecTwo31, n.digits)
\* the stream was a run of digits above UINT32_MAX
AboveUint(n) == n.sign = "" /\ DecLt(DecUint32Max, n.digits)

\* C8: yscanf2.h: a numeral above INT32_MAX gives INT32_MAX by yread_int,
\* one below INT32_MIN gives INT32_MIN, a run of digits above UINT32_MAX
\* gives UINT32_MAX by yread_uint, runs that wrap 64 bits included; yscanf
\* stores the same and counts the conversion.
C8_Saturation32 ==
    \A n \in Numerals, tail \in Tails :
        (hdr = 2 /\ Given(Text(n) \o tail)) =>
            /\ (op = "yread_int" \/ Scanned(<<"d">>)) =>
                   /\ AboveInt(n) => out[1] = [w |-> TRUE, k |-> "int", v |-> INT32_MAX]
                   /\ BelowInt(n) => out[1] = [w |-> TRUE, k |-> "int", v |-> INT32_MIN]
            /\ ((op = "yread_uint" \/ Scanned(<<"u">>)) /\ AboveUint(n)) =>
                   out[1] = [w |-> TRUE, k |-> "unsigned", v |-> UINT32_MAX]
            /\ (Scanned(<<"d">>) /\ (AboveInt(n) \/ BelowInt(n))) => ret = 1
            /\ (Scanned(<<"u">>) /\ AboveUint(n)) => ret = 1

\* yread_int on "-25000000000000000000", whose digits wrap 64 bits
\* unnoticed, has returned INT32_MIN
C8_Witness ==
    /\ hdr = 2
    /\ op = "yread_int"
    /\ Given(Text([sign |-> "-", digits |-> <<2, 5, 0, 0, 0, 0, 0, 0, 0, 0, 0, 0, 0, 0, 0, 0, 0, 0, 0, 0>>]))
    /\ out[1].v = INT32_MIN

\* C9 as stated: yscanf2.h: a numeral above LLONG_MAX gives LLONG_MAX by
\* yread_ll, one below LLONG_MIN gives LLONG_MIN, and a run of digits above
\* ULLONG_MAX gives ULLONG_MAX by yread_ull.
C9_AsStated ==
    \A n \in Numerals, tail \in Tails :
        (hdr = 2 /\ Given(Text(n) \o tail)) =>
            /\ op = "yread_ll" =>
                   /\ (n.sign # "-" /\ DecLt(DecLlongMax, n.digits)) => out[1].v = LLONG_MAX
                   /\ (n.sign = "-" /\ DecLt(DecTwo63, n.digits)) => out[1].v = LLONG_MIN
            /\ (op = "yread_ull" /\ n.sign = "" /\ DecLt(DecUllongMax, n.digits)) =>
                   out[1].v = ULLONG_MAX

\* C10 as stated: yscanf3.h: a numeral above INT32_MAX read by
\* yread_int_ok or "%d" stores INT32_MAX, one below INT32_MIN stores
\* INT32_MIN, a run of digits above UINT32_MAX read by yread_uint_ok or
\* "%u" stores UINT32_MAX; the conversion succeeds and the numeral's
\* digits are all consumed; "%d %u" on the stream of
\* test_overflow_handling gives INT32_MAX and UINT32_MAX.
C10_AsStated ==
    /\ (hdr = 3 /\ op = "yscanf" /\ arg = Str(<<"%", "d", " ", "%", "u">>)
        /\ Given(OverflowInput)) =>
           ret = 2 /\ out[1].v = INT32_MAX /\ out[2].v = UINT32_MAX
    /\ \A n \in Numerals, tail \in Tails :
        (hdr = 3 /\ Given(Text(n) \o tail)) =>
            /\ (op = "yread_int_ok" \/ Scanned(<<"d">>)) =>
                   /\ AboveInt(n) =>
                          ret = 1 /\ out[1].v = INT32_MAX /\ Unread(Cur(0)) = tail
                   /\ BelowInt(n) =>
                          ret = 1 /\ out[1].v = INT32_MIN /\ Unread(Cur(0)) = tail
            /\ ((op = "yread_uint_ok" \/ Scanned(<<"u">>)) /\ AboveUint(n)) =>
                   ret = 1 /\ out[1].v = UINT32_MAX /\ Unread(Cur(0)) = tail



(* ----------------------------- read loop ------------------------------- *)

\* C11: the read loop over yscanf of yscanf3.h: with N in-range integers
\* written to the stream, whitespace between them and nothing or whitespace
\* after the last, the i-th yscanf("%d", &val) returns 1 and stores the i-th
\* integer for i <= N, the (N+1)-th returns a value other than 1 (the loop
\* ends) and stores nothing, and every later call returns that same value.
C11_ReadLoop ==
    \A i \in 1..Len(loop.rets) :
        IF i <= Len(loop.ints)
        THEN /\ loop.rets[i] = 1
             /\ loop.vals[i] = [w |-> TRUE, k |-> "int", v |-> I32(loop.ints[i])]
        ELSE /\ loop.rets[i] # 1
             /\ loop.rets[i] = loop.rets[Len(loop.ints) + 1]
             /\ loop.vals[i] = Untouched

\* two integers read, the third call has ended the loop and a fourth has
\* returned the same
C11_Witness ==
    /\ hdr = 3
    /\ loop.ints = <<-42, 2147483647>>
    /\ loop.rets = <<1, 1, EOF, EOF>>


(* ------------------------------ type tags ------------------------------ *)

\* the numerals with an exponent among the tokens
ExpNumerals ==
    { Str(<<"1", ".", "2", "3", "e", "4">>),
      Str(<<"-", "5", ".", "6", "7", "e", "-", "8">>),
      Str(<<"7", "E", "+", "7">>) }

\* C12 as stated: yscanf of yscanf3.h takes "%lf" as a double conversion:
\* on a numeral with an exponent it returns 1, stores the value
\* yread_double_ok reads (mantissa and exponent) and consumes the whole
\* numeral; it never ends as an unrecognized directive does.
C12_AsStated ==
    \A numeral \in ExpNumerals, tail \in Tails :
        (Scanned3 /\ arg = Fmt(<<"%", "l", "f">>) /\ Given(numeral \o tail)) =>
            LET Read(r) ==
                    /\ ret = 1
                    /\ out = OneSlot("double", r)
                    /\ Unread(Cur(0)) = tail
            IN  Read(yread_double_ok(pre))

\* the tags of the README's table
DocumentedTags ==
    { <<"d">>, <<"u">>, <<"l", "l", "d">>, <<"l", "l", "u">>, <<"f">>, <<"e">>, <<"g">>,
      <<"s">>, <<"c">> }

\* the type a tag stores
KindOf(tag) ==
    CASE tag = <<"d">> -> "int"
      [] tag = <<"u">> -> "unsigned"
      [] tag \in { <<"l", "l", "d">>, <<"l", "l", "i">> } -> "long long"
      [] tag = <<"l", "l", "u">> -> "unsigned long long"
      [] tag \in { <<"f">>, <<"e">>, <<"g">> } -> "double"
      [] tag = <<"s">> -> "string"
      [] tag = <<"c">> -> "char"

\* the reader the claim names for a tag, in yscanf3.h
Named3(tag, s) ==
    IF tag = <<"l", "l", "i">> THEN yread_ll_ok(s) ELSE Reader3(tag, s)

\* the reader the claim names for a tag other than c, in yscanf2.h
Named2(tag, s) ==
    CASE tag = <<"d">> -> yread_int(s)
      [] tag = <<"u">> -> yread_uint(s)
      [] tag \in { <<"l", "l", "d">>, <<"l", "l", "i">> } -> yread_ll(s)
      [] tag = <<"l", "l", "u">> -> yread_ull(s)
      [] tag \in { <<"f">>, <<"e">>, <<"g">> } -> yread_double_exp(s)
      [] tag = <<"s">> -> yread_string(s)

\* yscanf("%tag", &slot) has done what the reader named for tag does: in
\* yscanf3.h it returns 1 and stores the reader's value, or EOF and nothing
\* when the reader reports none; in yscanf2.h it returns 1 and stores the
\* reader's value (for %c, EOF and nothing at the end of the stream); the
\* stream is left where the reader leaves it
Resolves(tag) ==
    /\ (Scanned3 /\ arg = Fmt(<<"%">> \o tag)) =>
           LET Read(r) ==
                   /\ ret = IF r.r = 0 THEN EOF ELSE 1
                   /\ out = OneSlot(KindOf(tag), r)
                   /\ Unread(Cur(0)) = Unread(r.s)
           IN  Read(Named3(tag, pre))
    /\ (Scanned2 /\ arg = Fmt(<<"%">> \o tag) /\ tag # <<"c">>) =>
           LET Read(r) ==
                   /\ ret = 1
                   /\ out = Returned(KindOf(tag), r)
                   /\ Unread(Cur(0)) = Unread(r.s)
           IN  Read(Named2(tag, pre))
    /\ (Scanned2 /\ arg = Fmt(<<"%">> \o tag) /\ tag = <<"c">>) =>
           LET Got(g) ==
                   /\ ret = IF g.c = EOF THEN EOF ELSE 1
                   /\ out = IF g.c = EOF THEN NoSlots
                            ELSE Returned("char", [v |-> <<g.c>>])
                   /\ Unread(Cur(0)) = Unread(g.s)
           IN  Got(ynext_char(pre))

\* C13: in both headers every tag of the README's table (d, u, lld, llu,
\* f, e, g, s, c) is resolved to its reader: d and u to the 32-bit
\* readers, lld to the signed and llu to the unsigned 64-bit reader, f, e
\* and g to the double reader, s to the string reader, c to the character
\* read.  %lli is not among them: it ends the call with -1, nothing stored
\* and nothing consumed.
C13_TagsResolved ==
    /\ \A tag \in DocumentedTags : Resolves(tag)
    /\ (op = "yscanf" /\ arg = Fmt(<<"%", "l", "l", "i">>)) =>
           ret = -1 /\ out = NoSlots /\ Unread(Cur(0)) = Unread(pre)

\* "%g" on "1.23e4" in yscanf3.h: 1, a double stored, the numeral consumed
C13_Witness ==
    /\ Scanned3
    /\ arg = Fmt(<<"%", "g">>)
    /\ Given(Str(<<"1", ".", "2", "3", "e", "4">>))
    /\ ret = 1
    /\ out[1].k = "double"
    /\ Unread(Cur(0)) = <<>>

\* C13 as stated: %lli too is resolved, to the signed 64-bit reader.
C13_AsStated == \A tag \in DocumentedTags \cup { <<"l", "l", "i">> } : Resolves(tag)


(* ------------------- %c, EOF and the outcome values -------------------- *)

\* C14 as stated: in both headers %c stores the very next unread byte,
\* whitespace included, also when whitespace precedes the directive in the
\* format: " %c" stores the stream's first byte, and "%c %c" its first two
\* (as the fourth %c of "%c%c%c %c%c%c" stores the space of "ABC 123").
C14_AsStated ==
    /\ (op = "yscanf" /\ arg = Fmt(<<" ", "%", "c">>) /\ Len(Unread(pre)) >= 1) =>
           ret = 1 /\ out[1].v = <<Unread(pre)[1]>>
    /\ (op = "yscanf" /\ arg = Fmt(<<"%", "c", " ", "%", "c">>)
        /\ Len(Unread(pre)) >= 2) =>
           /\ ret = 2
           /\ out[1].v = <<Unread(pre)[1]>>
           /\ out[2].v = <<Unread(pre)[2]>>


\* the stream as the first directive's reader finds it
AtFirst(lead) == IF lead = <<>> THEN pre ELSE yskip_space(pre)

\* C15: yscanf of yscanf3.h: when the reader of the first conversion
\* directive reports no value, the call returns EOF and writes no slot,
\* whether the stream has ended or a token that cannot be converted was
\* met and input remains unread; the stream is left where the reader
\* left it.
C15_EofOnFirstFailure ==
    \A lead \in Seps, tag \in Conversions3 :
        (Scanned3 /\ IsPrefix(Fmt(lead \o <<"%">> \o tag), arg)) =>
            LET Read(r) ==
                    r.r = 0 =>
                        /\ ret = EOF
                        /\ out = NoSlots
                        /\ Unread(Cur(0)) = Unread(r.s)
            IN  Read(Reader3(tag, AtFirst(lead)))

\* "%d" on the stream "- 7": the sign is not followed by a digit, EOF is
\* returned and " 7" is still unread
C15_Witness ==
    /\ Scanned3
    /\ arg = Fmt(<<"%", "d">>)
    /\ Given(Str(<<"-", " ", "7">>))
    /\ ret = EOF
    /\ out = NoSlots
    /\ Unread(Cur(0)) = Str(<<" ", "7">>)

\* C15 as stated: yscanf of yscanf3.h returns EOF with no conversion made
\* only when the stream has ended: when its first conversion fails with
\* input still unread, it returns another value.
C15_AsStated ==
    \A lead \in Seps, tag \in Conversions3 :
        (Scanned3 /\ IsPrefix(Fmt(lead \o <<"%">> \o tag), arg)
         /\ ret = EOF /\ out = NoSlots) =>
            Unread(Cur(0)) = <<>>

\* the slots the call has stored through
Written3 == { j \in 1..Len(out) : out[j].w }

\* the call's first directive is one of an unrecognized tag
InvalidFirst ==
    \E lead \in Seps, tag \in Unrecognized(hdr) :
        IsPrefix(Fmt(lead \o <<"%">> \o tag), arg)

\* C16: in both headers the value yscanf returns is either the count of
\* the conversions stored, which is not negative, or -1; -1 is what an
\* unrecognized directive yields and -1 is EOF, so that the two cannot be
\* told apart by value, while neither is ever taken for a count.
C16_Outcomes ==
    op = "yscanf" =>
        /\ ret >= 0 \/ ret = -1
        /\ ret >= 0 => ret = Cardinality(Written3)
        /\ InvalidFirst => ret = -1 /\ ret = EOF /\ out = NoSlots
        /\ \A lead \in Seps, tag \in Conversions3 :
               (hdr = 3 /\ NoInputAt(lead, tag) /\ lead # <<>>) =>
                   ret = EOF /\ ret = -1

\* "%z" on the stream "7" has returned -1, which is EOF, in yscanf2.h
C16_Witness ==
    /\ Scanned2
    /\ arg = Fmt(<<"%", "z">>)
    /\ Given(Str(<<"7">>))
    /\ ret = -1
    /\ ret = EOF

\* C16 as stated: the value returned for an unrecognized directive is
\* never the value returned for the end of the input, EOF, and neither is
\* a count.
C16_AsStated ==
    (op = "yscanf" /\ InvalidFirst) => ret # EOF /\ ret < 0


(* ------------------------- leading whitespace -------------------------- *)

RECURSIVE StripWs(_)
\* str without its leading whitespace bytes
StripWs(str) ==
    IF str # <<>> /\ Head(str) \in WhiteSpace THEN StripWs(Tail(str)) ELSE str

\* a stream of the bytes str, nothing of it read yet
Fresh(str) ==
    [stdin |-> str, drained |-> 0, ybuf |-> [i \in 1..BufSize |-> 0], yptr |-> 0,
     yend |-> 0, yeof |-> 0, freads |-> 0, rd |-> BufSize]

\* yscanf of header h
yscanfOf(h, fmt, s) ==
    IF h = 3 THEN yscanf3(fmt, s, NoSlots) ELSE yscanf2(fmt, s, NoSlots)

\* C17: in both headers, for %d, %u, %lld, %llu, %f and %s, after nothing
\* or whitespace in the format: the call on a stream that starts with any
\* number of whitespace bytes (space, \t, \n, \v, \f, \r) returns the
\* count, stores the value and leaves unread the bytes that the directive
\* alone does on the same stream without its leading whitespace.
C17_WhitespaceSkip ==
    \A lead \in Seps, tag \in SkippingTags :
        (op = "yscanf" /\ arg = Fmt(lead \o <<"%">> \o tag)) =>
            LET Same(bare) ==
                    /\ ret = bare.ret
                    /\ out = bare.slots
                    /\ Unread(Cur(0)) = Unread(bare.s)
            IN  Same(yscanfOf(hdr, Fmt(<<"%">> \o tag), Fresh(StripWs(Unread(pre)))))

\* "%d" in yscanf3.h on "\v\f42 ": 1, 42 stored, " " left unread
C17_Witness ==
    /\ Scanned3
    /\ arg = Fmt(<<"%", "d">>)
    /\ Given(<<11, 12>> \o Str(<<"4", "2", " ">>))
    /\ ret = 1
    /\ out[1] = [w |-> TRUE, k |-> "int", v |-> I32(42)]
    /\ Unread(Cur(0)) = Str(<<" ">>)


(* ------------------------------- words --------------------------------- *)

\* the index of the first whitespace byte of str, Len(str) + 1 if none
FirstWs(str) ==
    LET at == { i \in 1..Len(str) : str[i] \in WhiteSpace }
    IN  IF at = {} THEN Len(str) + 1 ELSE CHOOSE i \in at : \A j \in at : i <= j

\* C18: yread_str_ok of yscanf3.h: when nothing but whitespace is left
\* unread it returns 0 and stores nothing; otherwise it returns 1, stores
\* the longest run of non-whitespace bytes that follows the leading
\* whitespace (NUL-terminated) and leaves the whitespace byte that ended
\* the run unread.  "%s %s %s" on "hello world test123" returns 3 and
\* stores "hello", "world", "test123" in this order.
C18_Words ==
    /\ op = "yread_str_ok" =>
           LET After(rest) ==
                   IF rest = <<>>
                   THEN ret = 0 /\ out = NoSlots /\ Unread(Cur(0)) = <<>>
                   ELSE /\ ret = 1
                        /\ out = [NoSlots EXCEPT ![1] =
                                    [w |-> TRUE, k |-> "string",
                                     v |-> SubSeq(rest, 1, FirstWs(rest) - 1)]]
                        /\ Unread(Cur(0)) = SubSeq(rest, FirstWs(rest), Len(rest))
           IN  After(StripWs(Unread(pre)))
    /\ (Scanned3 /\ arg = Fmt(<<"%", "s", " ", "%", "s", " ", "%", "s">>)
        /\ Given(TestStringInput)) =>
           /\ ret = 3
           /\ out[1] = [w |-> TRUE, k |-> "string", v |-> Str(<<"h", "e", "l", "l", "o">>)]
           /\ out[2] = [w |-> TRUE, k |-> "string", v |-> Str(<<"w", "o", "r", "l", "d">>)]
           /\ out[3] = [w |-> TRUE, k |-> "string",
                        v |-> Str(<<"t", "e", "s", "t", "1", "2", "3">>)]

\* yread_str_ok on " h\n": 1, "h" stored, "\n" left unread
C18_Witness ==
    /\ op = "yread_str_ok"
    /\ Given(Str(<<" ", "h", "\n">>))
    /\ ret = 1
    /\ out[1].v = Str(<<"h">>)
    /\ Unread(Cur(0)) = Str(<<"\n">>)


(* ------------------------------- lines --------------------------------- *)

\* the index of the first '\n' or '\r' of str, Len(str) + 1 if none
FirstEol(str) ==
    LET at == { i \in 1..Len(str) : str[i] \in {Ord("\n"), Ord("\r")} }
    IN  IF at = {} THEN Len(str) + 1 ELSE CHOOSE i \in at : \A j \in at : i <= j

\* the bytes of the line terminator at str[k]: none at the end of str, two
\* for "\r\n", one for '\n' and for a '\r' not followed by '\n'
EolLen(str, k) ==
    IF k > Len(str) THEN 0
    ELSE IF str[k] = Ord("\r") /\ k < Len(str) /\ str[k + 1] = Ord("\n") THEN 2
    ELSE 1

\* what follows the first line of str and its terminator
AfterLine(str) ==
    SubSeq(str, FirstEol(str) + EolLen(str, FirstEol(str)), Len(str))

RECURSIVE StripEol(_)
\* str without its leading '\n' and '\r' bytes
StripEol(str) ==
    IF str # <<>> /\ Head(str) \in {Ord("\n"), Ord("\r")} THEN StripEol(Tail(str))
    ELSE str

\* C19: ygetline_ok of yscanf3.h: with no byte left unread it returns 0
\* and stores nothing; otherwise it returns 1, and, the destination being
\* large enough, stores the bytes before the first line terminator,
\* leading whitespace included (an empty string for an empty line), and
\* consumes the terminator: '\n', '\r' or the pair "\r\n" taken as one,
\* also when the pair is split between two reads of the stream.
C19_GetLine ==
    op = "ygetline_ok" =>
        LET Line(u, k) ==
                IF u = <<>>
                THEN ret = 0 /\ out = NoSlots /\ Unread(Cur(0)) = <<>>
                ELSE /\ ret = 1
                     /\ out[1].w
                     /\ k - 1 <= arg[1] - 1 => out[1].v = SubSeq(u, 1, k - 1)
                     /\ Unread(Cur(0)) = AfterLine(u)
        IN  Line(Unread(pre), FirstEol(Unread(pre)))

\* ygetline_ok on " \r\nh", the stream read two bytes at a time so that
\* '\r' ends one read and '\n' starts the next: 1, " " stored, "h" unread
C19_Witness ==
    /\ op = "ygetline_ok"
    /\ arg = <<3>>
    /\ pre.yend = 0 /\ pre.rd = 2
    /\ Given(Str(<<" ", "\r", "\n", "h">>))
    /\ ret = 1
    /\ out[1].v = Str(<<" ">>)
    /\ Unread(Cur(0)) = Str(<<"h">>)

\* C20: ygetline_ok and yread_line_ok of yscanf3.h, for a destination of
\* maxlen >= 1 bytes and a line of L bytes (for yread_line_ok the first
\* line after the leading '\n' and '\r' bytes): the first
\* min(L, maxlen - 1) bytes of the line are stored, the NUL follows them
\* so that no index from maxlen on is written, and the whole line and its
\* terminator are consumed: what is left unread does not depend on maxlen.
C20_Truncation ==
    (op = "ygetline_ok" \/ op = "yread_line_ok") =>
        LET Line(u, k) ==
                u # <<>> =>
                    /\ ret = 1
                    /\ out[1].w
                    /\ out[1].v = SubSeq(u, 1, Min(k - 1, arg[1] - 1))
                    /\ Len(out[1].v) + 1 <= arg[1]
                    /\ Unread(Cur(0)) = AfterLine(u)
            From(u) == Line(u, FirstEol(u))
        IN  From(IF op = "yread_line_ok" THEN StripEol(Unread(pre)) ELSE Unread(pre))

\* yread_line_ok with maxlen 2 on "hhh\n": 1, "h" stored, nothing unread
C20_Witness ==
    /\ op = "yread_line_ok"
    /\ arg = <<2>>
    /\ Given(Str(<<"h", "h", "h", "\n">>))
    /\ ret = 1
    /\ out[1].v = Str(<<"h">>)
    /\ Unread(Cur(0)) = <<>>


(* --------------------------- byte by byte ------------------------------ *)

\* C21: yscanf3.h: whatever the sizes of the stream's reads, the i-th yget
\* of a run of yget calls, with any number of ypeek calls between them,
\* returns the i-th byte of the stream, and EOF once the stream's bytes
\* have all been returned: no byte is lost, returned twice or out of order.
C21_Transparent ==
    hdr = 3 =>
        \A i \in 1..Len(loop.rets) :
            loop.rets[i] = IF i <= Len(loop.ints) THEN loop.ints[i] ELSE EOF

\* the three bytes of "ac " returned in turn, then EOF twice, a ypeek
\* having filled the buffer before one of the yget calls
C21_Witness ==
    /\ hdr = 3
    /\ loop.ints = Str(<<"a", "c", " ">>)
    /\ loop.rets = Str(<<"a", "c", " ">>) \o <<EOF, EOF>>

\* C22: ypeek of yscanf3.h and ypeek_char of yscanf2.h consume nothing:
\* the unread bytes are after the call what they were before it, and the
\* value returned is the one a peek or a get called next returns, also
\* when the call has read the stream or met its end.
C22_PeekKeeps ==
    /\ (hdr = 3 /\ op = "ypeek") =>
           /\ Unread(Cur(0)) = Unread(pre)
           /\ \A rd \in 1..BufSize :
                  ypeek(Cur(rd)).c = ret /\ yget(Cur(rd)).c = ret
    /\ (hdr = 2 /\ op = "ypeek_char") =>
           /\ Unread(Cur(0)) = Unread(pre)
           /\ \A rd \in 1..BufSize :
                  ypeek_char(Cur(rd)).c = ret /\ ynext_char(Cur(rd)).c = ret

\* a ypeek_char that found the buffer empty and read the stream
C22_Witness ==
    /\ hdr = 2
    /\ op = "ypeek_char"
    /\ pre.yptr = pre.yend
    /\ freads = 1
    /\ ret = Ord("c")
    /\ Unread(pre) = Str(<<"c", "a">>)

C23_SkipSpace ==
    (hdr = 3 /\ op = "yskip_space") => Unread(Cur(0)) = StripWs(Unread(pre))

\* yskip_space on "\v\f42", a first read of the stream delivering the two
\* whitespace bytes and a second one the numeral's first bytes
C23_Witness ==
    /\ hdr = 3
    /\ op = "yskip_space"
    /\ Given(<<11, 12>> \o Str(<<"4", "2">>))
    /\ freads = 2
    /\ Unread(Cur(0)) = Str(<<"4", "2">>)


(* ----------------------- tokens that are no numerals ------------------- *)

\* str after its leading whitespace and one sign, if it has one
PastSign(str) ==
    LET Signed(w) ==
            IF w # <<>> /\ Head(w) \in {Ord("+"), Ord("-")} THEN Tail(w) ELSE w
    IN  Signed(StripWs(str))

\* after leading whitespace, str holds a token that does not start as a
\* numeral: after one optional sign comes a byte that is no digit, or
\* the end
Malformed(str) ==
    /\ StripWs(str) # <<>>
    /\ PastSign(str) = <<>> \/ Head(PastSign(str)) \notin 48..57

\* the two signed integer conversions of yscanf3.h
SignedTags == { <<"d">>, <<"l", "l", "d">> }

\* C25: yscanf3.h, the unread input being, after whitespace and at most
\* one sign, a byte that is no digit: yread_int_ok and yread_ll_ok return
\* 0 and store nothing, having consumed the whitespace and the sign and
\* not the byte after the sign; yscanf then returns EOF when the
\* conversion is its first, and 1, the second slot untouched, when it is
\* the second after one that stored a value.
C25_MalformedInt ==
    /\ (op \in {"yread_int_ok", "yread_ll_ok"} /\ Malformed(Unread(pre))) =>
           ret = 0 /\ out = NoSlots /\ Unread(Cur(0)) = PastSign(Unread(pre))
    /\ \A t \in SignedTags :
           (Scanned3 /\ arg = Fmt(<<"%">> \o t) /\ Malformed(Unread(pre))) =>
               ret = EOF /\ out = NoSlots /\ Unread(Cur(0)) = PastSign(Unread(pre))
    /\ \A t1 \in SignedTags, t2 \in SignedTags :
           (Scanned3 /\ arg = Fmt(<<"%">> \o t1 \o <<" ", "%">> \o t2)) =>
               LET First(r) ==
                       (r.r = 1 /\ Malformed(Unread(r.s))) =>
                           /\ ret = 1
                           /\ out = OneSlot(KindOf(t1), r)
                           /\ Unread(Cur(0)) = PastSign(Unread(r.s))
               IN  First(Reader3(t1, pre))

\* yread_ll_ok on " -a": 0, nothing stored, "a" is the next unread byte
C25_Witness ==
    /\ op = "yread_ll_ok"
    /\ Given(Str(<<" ", "-", "a">>))
    /\ ret = 0
    /\ out = NoSlots
    /\ Unread(Cur(0)) = Str(<<"a">>)


(* ------------------- yscanf2.h: the end of a numeral ------------------- *)

RECURSIVE StripDigits(_)
\* str without its leading digits
StripDigits(str) ==
    IF str # <<>> /\ Head(str) \in 48..57 THEN StripDigits(Tail(str)) ELSE str

\* str without a leading '.' and the digits after it
PastFraction(str) ==
    IF str # <<>> /\ Head(str) = Ord(".") THEN StripDigits(Tail(str)) ELSE str

\* C26 as stated: yscanf2.h: %d and %lld (yparse_int), %u and %llu
\* (yparse_uint) and %lf (yread_double), reading a numeral, consume the
\* leading whitespace, the sign and the numeral's bytes and no more: the
\* byte that ends the numeral is the first unread byte after the call.
C26_AsStated ==
    /\ \A tag \in { <<"d">>, <<"l", "l", "d">> } :
           (Scanned2 /\ arg = Fmt(<<"%">> \o tag)
            /\ StripWs(Unread(pre)) # <<>> /\ ~Malformed(Unread(pre))) =>
               Unread(Cur(0)) = StripDigits(PastSign(Unread(pre)))
    /\ \A tag \in { <<"u">>, <<"l", "l", "u">> } :
           (Scanned2 /\ arg = Fmt(<<"%">> \o tag)
            /\ StripWs(Unread(pre)) # <<>> /\ Head(StripWs(Unread(pre))) \in 48..57) =>
               Unread(Cur(0)) = StripDigits(StripWs(Unread(pre)))
    /\ (Scanned2 /\ arg = Fmt(<<"%", "l", "f">>)
        /\ StripWs(Unread(pre)) # <<>> /\ ~Malformed(Unread(pre))) =>
           Unread(Cur(0)) = PastFraction(StripDigits(PastSign(Unread(pre))))

\* the value of a numeral with an exponent, by its parts: the sign, the
\* digits before and after the point, the exponent's sign and digits
ExpValue(numeral) ==
    CASE numeral = Str(<<"1", ".", "2", "3", "e", "4">>) ->
             <<1, <<1>>, <<2, 3>>, 1, <<4>> >>
      [] numeral = Str(<<"-", "5", ".", "6", "7", "e", "-", "8">>) ->
             <<-1, <<5>>, <<6, 7>>, -1, <<8>> >>
      [] numeral = Str(<<"7", "E", "+", "7">>) ->
             <<1, <<7>>, <<>>, 1, <<7>> >>

\* C27 as stated: yscanf2.h: %f, %e and %g on a numeral whose mantissa is
\* followed by 'e' or 'E', an optional sign and digits: the call returns
\* 1, stores the mantissa scaled by the exponent and has consumed the
\* whole numeral, exponent included.
C27_AsStated ==
    \A tag \in { <<"f">>, <<"e">>, <<"g">> }, numeral \in ExpNumerals, tail \in Tails :
        (Scanned2 /\ arg = Fmt(<<"%">> \o tag) /\ Given(numeral \o tail)) =>
            /\ ret = 1
            /\ out[1] = [w |-> TRUE, k |-> "double", v |-> ExpValue(numeral)]
            /\ \E n \in 0..Len(tail) : Unread(Cur(0)) = SubSeq(tail, n + 1, Len(tail))

(* ------------------ whitespace and literals in a format ----------------- *)

Literals ==
    { <<Fmt(<<"x">>), <<>> >>,
      <<Fmt(<<"x", "%", "d">>), Fmt(<<"%", "d">>)>>,
      <<Fmt(<<"%", "d", "x">>), Fmt(<<"%", "d">>)>>,
      <<Fmt(<<"%", "d", "x", "%", "d">>), Fmt(<<"%", "d", "%", "d">>)>>,
      <<Fmt(<<"x", "%", "c">>), Fmt(<<"%", "c">>)>>,
      <<Fmt(<<" ", "x", "%", "d">>), Fmt(<<" ", "%", "d">>)>> }

C30_Boundary64 ==
    /\ \A v \in Signed64Samples, tail \in Tails :
           (hdr = 2 /\ Given(FormatS64(v) \o tail)) =>
               /\ (op = "yread_ll" \/ Scanned(<<"l", "l", "d">>)) =>
                      out[1] = [w |-> TRUE, k |-> "long long", v |-> v]
               /\ Scanned(<<"l", "l", "d">>) => ret = 1
    /\ \A x \in Unsigned64Samples, tail \in Tails :
           (hdr = 2 /\ Given(FormatU64(x) \o tail)) =>
               /\ (op = "yread_ull" \/ Scanned(<<"l", "l", "u">>)) =>
                      out[1] = [w |-> TRUE, k |-> "unsigned long long", v |-> x]
               /\ Scanned(<<"l", "l", "u">>) => ret = 1

\* yscanf("%lld %lld %lld") on the stream of test_long_long has stored
\* LLONG_MAX, LLONG_MIN and 0
C30_Witness ==
    /\ Scanned2
    /\ arg = Fmt(<<"%", "l", "l", "d", " ", "%", "l", "l", "d", " ", "%", "l", "l", "d">>)
    /\ Given(Str(<<"9", "2", "2", "3", "3", "7", "2", "0", "3", "6", "8", "5", "4", "7",
                   "7", "5", "8", "0", "7", " ", "-", "9", "2", "2", "3", "3", "7", "2",
                   "0", "3", "6", "8", "5", "4", "7", "7", "5", "8", "0", "8", " ", "0">>))
    /\ ret = 3
    /\ out[1].v = LLONG_MAX
    /\ out[2].v = LLONG_MIN
    /\ out[3].v = Zero64

(* ---------------------- scaling by the exponent ------------------------- *)

\* a double has been read by the reader of header h or by its yscanf
ReadDouble(h) ==
    /\ hdr = h
    /\ op \in {"yread_double_ok", "yread_double_exp", "yscanf"}
    /\ out[1].w
    /\ out[1].k = "double"

\* C31 as stated: the loops that scale the mantissa by the power of ten
\* (yread_double_ok of yscanf3.h, yread_double_exp of yscanf2.h for both
\* signs of the exponent) make at most a fixed number of iterations,
\* whatever the exponent's digits: never more than for the largest
\* exponent the code provides for, ExpCap.
C31_AsStated ==
    /\ ReadDouble(3) => ScaleSteps3(out[1].v) <= ExpCap
    /\ ReadDouble(2) => ScaleSteps2(out[1].v) <= ExpCap

(* ------------------- the destination of a line ------------------------- *)

\* C32 as stated: ygetline_ok and yread_line_ok of yscanf3.h, for every
\* maxlen >= 0: the indices written, 0..len for the len bytes stored and
\* the NUL after them, are all in 0..maxlen-1, and a call that returns 0
\* writes nothing.
C32_AsStated ==
    (op = "ygetline_ok" \/ op = "yread_line_ok") =>
        /\ ret = 1 => out[1].w /\ Len(out[1].v) <= arg[1] - 1
        /\ ret = 0 => out = NoSlots

(* ----------------------------- blank lines ----------------------------- *)

\* C33 as stated: yread_line_ok of yscanf3.h consumes the leading '\n' and
\* '\r' bytes; it returns 0, with all of them consumed and nothing stored,
\* exactly when nothing else is left; otherwise it returns 1 with the next
\* line, and the string it stores is never empty.
C33_AsStated ==
    op = "yread_line_ok" =>
        LET Line(v) ==
                /\ ret = 0 <=> v = <<>>
                /\ ret = 0 => out = NoSlots /\ Unread(Cur(0)) = <<>>
                /\ ret = 1 =>
                       /\ out[1].w
                       /\ out[1].v # <<>>
                       /\ Unread(Cur(0)) = AfterLine(v)
        IN  Line(StripEol(Unread(pre)))

\* C33: yread_line_ok of yscanf3.h, called with maxlen >= 1, consumes the
\* leading '\n' and '\r' bytes; it returns 0, with all of them consumed
\* and nothing stored, exactly when nothing else is left; otherwise it
\* returns 1, the line it reads has at least one byte, it stores the
\* line's first min(L, maxlen - 1) bytes, which is an empty string only if
\* maxlen is 1, and it consumes the line and its terminator.
C33_BlankLines ==
    op = "yread_line_ok" =>
        LET Line(v, k) ==
                /\ ret \in {0, 1}
                /\ ret = 0 <=> v = <<>>
                /\ ret = 0 => out = NoSlots /\ Unread(Cur(0)) = <<>>
                /\ ret = 1 =>
                       /\ k > 1
                       /\ out[1].w
                       /\ out[1].v = SubSeq(v, 1, Min(k - 1, arg[1] - 1))
                       /\ out[1].v = <<>> <=> arg[1] = 1
                       /\ Unread(Cur(0)) = AfterLine(v)
            From(v) == Line(v, FirstEol(v))
        IN  From(StripEol(Unread(pre)))

\* yread_line_ok with maxlen 3 on "\n\rh\n": the two blank lines are
\* passed over, 1 is returned, "h" stored, nothing left unread
C33_Witness ==
    /\ op = "yread_line_ok"
    /\ arg = <<3>>
    /\ Given(Str(<<"\n", "\r", "h", "\n">>))
    /\ ret = 1
    /\ out[1].v = Str(<<"h">>)
    /\ Unread(Cur(0)) = <<>>

====
